---- MODULE Spec2Model ----
(***************************************************************************)
(* Model of the billing-cycle, liability and cash-flow core of the ASR     *)
(* finance dashboard (helpers.py, finance_dashboard.py, ui_sections.py,    *)
(* ui/bills.py, ui/overrides.py).                                          *)
(*                                                                         *)
(* A calendar date is a record [y, m, d].  Money is an integer number of   *)
(* 1/1000 rupee, so that rounding to 2 decimals is a real operation.       *)
(***************************************************************************)
EXTENDS Integers, Sequences, FiniteSets, TLC

VARIABLES
    year,        \* the (generation or target) year of the call in progress
    month,       \* its month
    day,         \* day argument of safe_date / day of the date given to shift_month
    shift_k,     \* month shift given to shift_month
    date_out,    \* result of the last date helper call: [fn, val]
    card_row,    \* the card's day rule: [start_day, end_day, due_day, due_offset]
    cycle,       \* result of the last rule-based cycle call: [fn, cs, ce, bill, due]
    program,     \* which program runs: "app" (helpers.py + ui/) or "dashboard"
    bill_cycles, \* BILL_CYCLES / the cards' day rules: card -> rule
    overrides,   \* app: the override list (dicts with id, card_id, year, month, dates)
    card_date_overrides,  \* dashboard: st.session_state.card_date_overrides, key -> rec
    lookup,      \* result of the last effective-cycle call: [fn, card, y, m, raised, res]
    df,          \* the transactions: rows [Card, type, Amount, Date]
    liability,   \* result of the last sum_liability call
    start_balance,  \* starting balance given to the simulator
    extra_buffer,   \* extra buffer / extra cash given to the simulator
    salary,         \* sidebar income inputs: [amount, payday]
    extra_inflows,  \* st.session_state.extra_inflows: records [Date, Source, Amount]
    paid_flags,     \* st.session_state.paid_flags: key -> bool
    sim,            \* the simulator's output: [fn, raised, rows, styles]
    payment_mode,   \* the "Payment mode" text given to detect_card: a sequence of atoms
    card_overrides, \* CARD_OVERRIDES: payment mode -> card name
    detected,       \* result of the last detect_card call: [fn, card]
    monthly,        \* one card's column of the monthly totals: row i is month i
    this_ym,        \* the month of the sidebar's reference date, as a row month
    window,         \* the "Window" radio of the trends section
    exclude_current,  \* the "Exclude selected month" checkbox
    budget_cap,     \* the card's budget cap of the sidebar (dashboard)
    styled,         \* the styled trends table: [fn, rows, styles]
    raw_df,         \* the normalised feed before the card mapping: rows with PaymentMode
    card_aliases,   \* the aliases: payment mode -> card name
    totals,         \* result of the last monthly_totals call
    csv_rows,       \* the uploaded CSV: [missing, rows], rows of texts under Date, Amount, ...
    normalized,     \* result of normalize_csv: [fn, none, rows]
    fs_path,        \* the collection file: [exists, text]
    fs_tmp,         \* the .tmp file next to it
    save_pc,        \* position of the _write_json call in progress
    save_obj,       \* the object given to it
    committed,      \* the object of the last completed save: [some, val]
    loaded          \* result of the last _read_json call: [fn, val]

callVars == <<year, month>>
dateVars == <<day, shift_k, date_out>>
ruleVars == <<card_row, cycle>>
ovVars == <<program, bill_cycles, overrides, card_date_overrides, lookup>>
txVars == <<df, liability>>
cashVars == <<start_balance, extra_buffer, salary, extra_inflows, paid_flags, sim>>
cardVars == <<payment_mode, card_overrides, detected>>
trendVars == <<monthly, this_ym, window, exclude_current, budget_cap, styled>>
mapVars == <<raw_df, card_aliases, totals>>
csvVars == <<csv_rows, normalized>>
fileVars == <<fs_path, fs_tmp, save_pc, save_obj, committed, loaded>>
extVars == <<cardVars, trendVars, mapVars, csvVars, fileVars>>
notCard == <<trendVars, mapVars, csvVars, fileVars>>
notTrend == <<cardVars, mapVars, csvVars, fileVars>>
notMap == <<cardVars, trendVars, csvVars, fileVars>>
notCsv == <<cardVars, trendVars, mapVars, fileVars>>
notFile == <<cardVars, trendVars, mapVars, csvVars>>
vars == <<callVars, dateVars, ruleVars, ovVars, txVars, cashVars, extVars>>

\* ------------------------------------------------------------------------
\* Bounds of the model
\* ------------------------------------------------------------------------
MinYear == 2023
MaxYear == 2025
MaxLowDay == 2
MinHighDay == 27
MaxShift == 3

\* ------------------------------------------------------------------------
\* Program constants
\* ------------------------------------------------------------------------
MaxDay == 31
MaxDueOffset == 3

Years == MinYear..MaxYear
Months == 1..12
AllDays == 1..MaxDay
DayValues == (1..MaxLowDay) \cup (MinHighDay..MaxDay)
DueOffsets == 0..MaxDueOffset

\* a function over 1..n as the sequence of its values
AsList(f) == f \o <<>>

Min2(a, b) == IF a <= b THEN a ELSE b
Max2(a, b) == IF a >= b THEN a ELSE b
Abs(n) == IF n < 0 THEN 0 - n ELSE n

\* ------------------------------------------------------------------------
\* datetime.date / calendar / dateutil.relativedelta
\* ------------------------------------------------------------------------
Date(y, m, d) == [y |-> y, m |-> m, d |-> d]

isleap(y) == (y % 4 = 0) /\ ((y % 100 # 0) \/ (y % 400 = 0))

mdays == <<31, 28, 31, 30, 31, 30, 31, 31, 30, 31, 30, 31>>

\* calendar.monthrange(y, m)[1]
monthrange_last(y, m) == mdays[m] + (IF m = 2 /\ isleap(y) THEN 1 ELSE 0)

DateLT(a, b) ==
    \/ a.y < b.y
    \/ a.y = b.y /\ a.m < b.m
    \/ a.y = b.y /\ a.m = b.m /\ a.d < b.d

DateLE(a, b) == a = b \/ DateLT(a, b)

RECURSIVE days_before_month(_, _)
days_before_month(y, m) ==
    IF m = 1 THEN 0 ELSE days_before_month(y, m - 1) + monthrange_last(y, m - 1)

\* date.toordinal()
toordinal(dt) ==
    LET y1 == dt.y - 1
    IN  y1 * 365 + (y1 \div 4) - (y1 \div 100) + (y1 \div 400)
          + days_before_month(dt.y, dt.m) + dt.d

\* (a - b).days
days_between(a, b) == toordinal(a) - toordinal(b)

\* date + relativedelta(months=k): month arithmetic with year carry, then the
\* day is clamped to the length of the resulting month
add_months(dt, k) ==
    LET t  == dt.y * 12 + (dt.m - 1) + k
        ny == t \div 12
        nm == (t % 12) + 1
    IN  Date(ny, nm, Min2(dt.d, monthrange_last(ny, nm)))

\* helpers.month_range(y, m)
month_range(y, m) == <<Date(y, m, 1), Date(y, m, monthrange_last(y, m))>>

\* helpers.safe_date(y, m, d)
safe_date_nofloor(y, m, d) ==
    LET last == monthrange_last(y, m) IN Date(y, m, Min2(d, last))

safe_date_noclamp(y, m, d) == Date(y, m, d)

safe_date(y, m, d) ==
    LET last == monthrange_last(y, m) IN Date(y, m, Max2(1, Min2(d, last)))

\* helpers.shift_month(d, k)
shift_month_keeps_day(dt, k) ==
    LET anchor == add_months(Date(dt.y, dt.m, 15), k)
    IN  Date(anchor.y, anchor.m, dt.d)

shift_month(dt, k) ==
    LET anchor == add_months(Date(dt.y, dt.m, 15), k)
        end    == month_range(anchor.y, anchor.m)[2]
    IN  Date(anchor.y, anchor.m, Min2(dt.d, end.d))

\* finance_dashboard.month_range / safe_date
fd_month_range(y, m) ==
    LET start == Date(y, m, 1)
        nxt   == add_months(start, 1)
    IN  <<start, Date(y, m, toordinal(nxt) - toordinal(start))>>

fd_safe_date(y, m, d) ==
    LET last_day == fd_month_range(y, m)[2].d IN Date(y, m, Min2(d, last_day))

\* ------------------------------------------------------------------------
\* Rule-based cycles
\* ------------------------------------------------------------------------
Rule(s, e, d, o) == [start_day |-> s, end_day |-> e, due_day |-> d, due_offset |-> o]

\* config.DEFAULT_BILL_CYCLES and the rules of tests/test_helpers.py
DEFAULT_BILL_CYCLES ==
    { Rule(22, 21, 10, 1), Rule(19, 18, 5, 1), Rule(8, 7, 27, 0),
      Rule(22, 21, 8, 1), Rule(19, 18, 8, 1), Rule(25, 24, 13, 1) }

TestRules == { Rule(22, 21, 8, 1), Rule(1, 30, 15, 1) }

GridRules ==
    { Rule(s, e, d, o) : s \in DayValues, e \in DayValues, d \in DayValues, o \in DueOffsets }

Rules == DEFAULT_BILL_CYCLES \cup TestRules \cup GridRules

Cycle(fn, cs, ce, bill, due) == [fn |-> fn, cs |-> cs, ce |-> ce, bill |-> bill, due |-> due]

NoDate == Date(0, 0, 0)
NoCycle == Cycle("none", NoDate, NoDate, NoDate, NoDate)
NoRule == Rule(0, 0, 0, 0)

\* the while loop of cycle_window_for_month: <<due_month, due_year>>
RECURSIVE due_wrap_noyear(_, _)
due_wrap_noyear(due_month, due_year) ==
    IF due_month > 12 THEN due_wrap_noyear(due_month - 12, due_year)
    ELSE <<due_month, due_year>>

RECURSIVE due_wrap(_, _)
due_wrap(due_month, due_year) ==
    IF due_month > 12 THEN due_wrap(due_month - 12, due_year + 1)
    ELSE <<due_month, due_year>>

\* helpers.cycle_window_for_month(card_row, year, month)
cycle_window_noshift(row, y, m) ==
    LET cycle_end   == safe_date(y, m, row.end_day)
        cycle_start == safe_date(y, m, row.start_day)
        w           == due_wrap(m + row.due_offset, y)
        due_dt      == safe_date(w[2], w[1], row.due_day)
    IN  Cycle("helpers", cycle_start, cycle_end, cycle_end, due_dt)

cycle_window_billdue(row, y, m) ==
    LET cycle_end   == safe_date(y, m, row.end_day)
        start0      == safe_date(y, m, row.start_day)
        cycle_start == IF row.start_day > row.end_day THEN shift_month(start0, -1) ELSE start0
        w           == due_wrap(m + row.due_offset, y)
        due_dt      == safe_date(w[2], w[1], row.due_day)
    IN  Cycle("helpers", cycle_start, cycle_end, due_dt, due_dt)

cycle_window_for_month(row, y, m) ==
    LET start_day   == row.start_day
        end_day     == row.end_day
        due_day     == row.due_day
        due_off     == row.due_offset
        cycle_end   == safe_date(y, m, end_day)
        start0      == safe_date(y, m, start_day)
        cycle_start == IF start_day > end_day THEN shift_month(start0, -1) ELSE start0
        w           == due_wrap(m + due_off, y)
        due_dt      == safe_date(w[2], w[1], due_day)
    IN  Cycle("helpers", cycle_start, cycle_end, cycle_end, due_dt)

\* finance_dashboard.get_overridden_cycle, the day-based branch
fd_cycle_from_days_sameyear(row, y, m) ==
    LET cycle_end   == fd_safe_date(y, m, row.end_day)
        start_date  == fd_safe_date(y, m, row.start_day)
        cycle_start == IF row.start_day > row.end_day
                       THEN add_months(start_date, -1) ELSE start_date
        due_month   == ((m + row.due_offset - 1) % 12) + 1
        due_dt      == fd_safe_date(y, due_month, row.due_day)
    IN  Cycle("dashboard", cycle_start, cycle_end, cycle_end, due_dt)

fd_cycle_from_days(row, y, m) ==
    LET cycle_end   == fd_safe_date(y, m, row.end_day)
        start_date  == fd_safe_date(y, m, row.start_day)
        cycle_start == IF row.start_day > row.end_day
                       THEN add_months(start_date, -1) ELSE start_date
        due_month0  == m + row.due_offset
        due_year    == y + ((due_month0 - 1) \div 12)
        due_month   == ((due_month0 - 1) % 12) + 1
        due_dt      == fd_safe_date(due_year, due_month, row.due_day)
    IN  Cycle("dashboard", cycle_start, cycle_end, cycle_end, due_dt)

\* ------------------------------------------------------------------------
\* Per-month date overrides and the effective cycle
\* ------------------------------------------------------------------------
\* An ISO date text "YYYY-MM-DD" is the sequence of its three numbers; a text
\* that is no date (a day the month does not have, an empty string) does not
\* parse.
isoformat(dt) == <<dt.y, dt.m, dt.d>>

isoformat_valid(t) ==
    /\ Len(t) = 3
    /\ t[1] \in 1..9999
    /\ t[2] \in 1..12
    /\ t[3] >= 1 /\ t[3] <= monthrange_last(t[1], t[2])

\* date.fromisoformat(t): [ok, val]; ok = FALSE stands for the ValueError
fromisoformat(t) ==
    IF isoformat_valid(t) THEN [ok |-> TRUE, val |-> Date(t[1], t[2], t[3])]
    ELSE [ok |-> FALSE, val |-> NoDate]

NoLookup == [fn |-> "none", card |-> "", y |-> 0, m |-> 0, raised |-> FALSE, res |-> NoCycle]

\* finance_dashboard.override_key(year, month, card): "YYYY-MM::Card"
override_key(y, m, card) == <<y, m, card>>

\* key.startswith("YYYY-MM::")
key_in_month(key, y, m) == key[1] = y /\ key[2] = m

\* finance_dashboard.get_overridden_cycle(card, year, month, fallback_from_days)
get_overridden_cycle(store, cycles, card, y, m, fallback_from_days) ==
    LET key == override_key(y, m, card)
        rec == store[key]
    IN  IF key \in DOMAIN store
           /\ fromisoformat(rec.start).ok /\ fromisoformat(rec.end).ok
           /\ fromisoformat(rec.due).ok
        THEN LET cstart == fromisoformat(rec.start).val
                 cend   == fromisoformat(rec.end).val
                 ddue   == fromisoformat(rec.due).val
             IN  Cycle("dashboard", cstart, cend, cend, ddue)
        ELSE IF fallback_from_days
        THEN fd_cycle_from_days(cycles[card], y, m)
        ELSE LET r == fd_month_range(y, m) IN Cycle("dashboard", r[1], r[2], r[2], r[2])

\* helpers.get_override_for(card_id, year, month, overrides): index of the first
\* matching override, 0 for None
RECURSIVE get_override_for_from(_, _, _, _, _)
get_override_for_from(i, card_id, y, m, ovs) ==
    IF i > Len(ovs) THEN 0
    ELSE IF ovs[i].card_id = card_id /\ ovs[i].year = y /\ ovs[i].month = m THEN i
    ELSE get_override_for_from(i + 1, card_id, y, m, ovs)

RECURSIVE get_override_for_cardonly(_, _, _, _, _)
get_override_for_cardonly(i, card_id, y, m, ovs) ==
    IF i > Len(ovs) THEN 0
    ELSE IF ovs[i].card_id = card_id THEN i
    ELSE get_override_for_cardonly(i + 1, card_id, y, m, ovs)

get_override_for(card_id, y, m, ovs) == get_override_for_from(1, card_id, y, m, ovs)

\* helpers.get_effective_cycle(card_row, year, month, overrides): [raised, res]
get_effective_cycle(card, row, y, m, ovs) ==
    LET i == get_override_for(card, y, m, ovs)
    IN  IF i # 0
        THEN LET cs == fromisoformat(ovs[i].cycle_start)
                 ce == fromisoformat(ovs[i].cycle_end)
                 dd == fromisoformat(ovs[i].due_date)
             IN  IF cs.ok /\ ce.ok /\ dd.ok
                 THEN [raised |-> FALSE, res |-> Cycle("helpers", cs.val, ce.val, ce.val, dd.val)]
                 ELSE [raised |-> TRUE, res |-> NoCycle]
        ELSE [raised |-> FALSE, res |-> cycle_window_for_month(row, y, m)]

\* helpers.card_bill_due_in_month(card_row, ref_date, overrides)
card_bill_due_in_month(card, row, ref_date, ovs) ==
    LET due_off == row.due_offset
        target  == shift_month(Date(ref_date.y, ref_date.m, 15), 0 - due_off)
    IN  get_effective_cycle(card, row, target.y, target.m, ovs)

\* finance_dashboard.find_cycle_whose_due_falls_in_month: the candidates of
\* range(-2, 3), in that order
SearchOffsets_narrow == <<-1, 0, 1>>

SearchOffsets == <<-2, -1, 0, 1, 2>>

fd_candidates(store, cycles, card, ty, tm) ==
    AsList([i \in 1..Len(SearchOffsets) |->
        LET anchor == add_months(Date(ty, tm, 15), SearchOffsets[i])
        IN  get_overridden_cycle(store, cycles, card, anchor.y, anchor.m, TRUE)])

\* the for loop returning the first candidate due in the target month; 0 if none
RECURSIVE first_due_match(_, _, _, _)
first_due_match(cands, i, ty, tm) ==
    IF i > Len(cands) THEN 0
    ELSE IF cands[i].due.y = ty /\ cands[i].due.m = tm THEN i
    ELSE first_due_match(cands, i + 1, ty, tm)

due_distance(c, ty, tm) == Abs(days_between(c.due, Date(ty, tm, 15)))

\* min(candidates, key=...): the first candidate with the smallest key
RECURSIVE closest_from(_, _, _, _, _)
closest_from(cands, i, best, ty, tm) ==
    IF i > Len(cands) THEN best
    ELSE IF due_distance(cands[i], ty, tm) < due_distance(cands[best], ty, tm)
    THEN closest_from(cands, i + 1, i, ty, tm)
    ELSE closest_from(cands, i + 1, best, ty, tm)

\* min(candidates, key=...)
closest_candidate(candidates, ty, tm) == candidates[closest_from(candidates, 2, 1, ty, tm)]

\* the for loop, then the fallback
due_match_or_closest(candidates, hit, ty, tm) ==
    IF hit # 0 THEN candidates[hit] ELSE closest_candidate(candidates, ty, tm)

search_candidates(candidates, ty, tm) ==
    due_match_or_closest(candidates, first_due_match(candidates, 1, ty, tm), ty, tm)

find_cycle_closest_only(store, cycles, card, ty, tm) ==
    closest_candidate(fd_candidates(store, cycles, card, ty, tm), ty, tm)

find_cycle_whose_due_falls_in_month(store, cycles, card, ty, tm) ==
    search_candidates(fd_candidates(store, cycles, card, ty, tm), ty, tm)

\* ------------------------------------------------------------------------
\* Transactions and liability.  Amounts are integers in 1/1000 rupee, so that
\* rounding to 2 decimals (10 units) is a real operation.
\* ------------------------------------------------------------------------
\* round(x, 2): to the nearest 1/100, ties to even
round2(x) ==
    LET q == x \div 10
        r == x % 10
    IN  IF r < 5 THEN q * 10
        ELSE IF r > 5 THEN (q + 1) * 10
        ELSE IF q % 2 = 0 THEN q * 10 ELSE (q + 1) * 10

\* str.lower() on the type strings of the feed
lower(str) ==
    CASE str \in {"expense", "Expense", "EXPENSE"} -> "expense"
      [] str \in {"income", "Income"} -> "income"
      [] OTHER -> str

\* a timestamp of the Date column: a date and an hour; .dt.date drops the hour
Timestamp(dt, h) == [date |-> dt, hour |-> h]
dt_date(ts) == ts.date

Txn(card, type, amount, ts) == [Card |-> card, type |-> type, Amount |-> amount, Date |-> ts]

\* the boolean mask of sum_liability
liability_mask_exclusive_end(rows, card, start_dt, end_dt) ==
    {i \in DOMAIN rows :
        /\ rows[i].Card = card
        /\ lower(rows[i].type) = "expense"
        /\ rows[i].Amount > 0
        /\ DateLE(start_dt, dt_date(rows[i].Date))
        /\ DateLT(dt_date(rows[i].Date), end_dt)}

liability_mask(rows, card, start_dt, end_dt) ==
    {i \in DOMAIN rows :
        /\ rows[i].Card = card
        /\ lower(rows[i].type) = "expense"
        /\ rows[i].Amount > 0
        /\ DateLE(start_dt, dt_date(rows[i].Date))
        /\ DateLE(dt_date(rows[i].Date), end_dt)}

TsLE(a, b) == DateLT(a.date, b.date) \/ (a.date = b.date /\ a.hour <= b.hour)

\* df.loc[mask].sort_values("Date"): the selected row numbers by timestamp,
\* rows of the same timestamp in feed order
RECURSIVE sort_by_date(_, _)
sort_by_date(rows, sel) ==
    IF sel = {} THEN <<>>
    ELSE LET first == CHOOSE i \in sel :
                        \A j \in sel \ {i} :
                            \/ ~TsLE(rows[j].Date, rows[i].Date)
                            \/ (rows[j].Date = rows[i].Date /\ i < j)
         IN  <<first>> \o sort_by_date(rows, sel \ {first})

\* sub["Amount"].sum()
RECURSIVE sum_amounts(_, _)
sum_amounts(rows, sub) ==
    IF sub = <<>> THEN 0 ELSE rows[Head(sub)].Amount + sum_amounts(rows, Tail(sub))

NoLiability ==
    [fn |-> "none", card |-> "", start |-> NoDate, end |-> NoDate,
     sub |-> <<>>, amount |-> 0, count |-> 0]

\* helpers.sum_liability(df, card_name, start_dt, end_dt)
sum_liability(rows, card, start_dt, end_dt) ==
    LET sub    == sort_by_date(rows, liability_mask(rows, card, start_dt, end_dt))
        amount == IF sub # <<>> THEN round2(sum_amounts(rows, sub)) ELSE 0
    IN  [fn |-> "helpers", card |-> card, start |-> start_dt, end |-> end_dt,
         sub |-> sub, amount |-> amount, count |-> Len(sub)]

\* finance_dashboard.sum_liability(df_in, card, start_dt, end_dt)
fd_sum_liability(rows, card, start_dt, end_dt) ==
    LET sub    == sort_by_date(rows, liability_mask(rows, card, start_dt, end_dt))
        amount == IF sub # <<>> THEN sum_amounts(rows, sub) ELSE 0
    IN  [fn |-> "dashboard", card |-> card, start |-> start_dt, end |-> end_dt,
         sub |-> sub, amount |-> amount, count |-> Len(sub)]

\* ------------------------------------------------------------------------
\* Cash-flow simulators
\* ------------------------------------------------------------------------
\* config.REGULARS and config.DEBTS (amounts in 1/1000 rupee; date_hint and
\* due_day as the number their digits give)
REGULARS ==
    << [item |-> "Papa", amount |-> 40000000, date_hint |-> 1],
       [item |-> "House Rent", amount |-> 40000000, date_hint |-> 1],
       [item |-> "SIP - 3rd", amount |-> 2000000, date_hint |-> 3],
       [item |-> "SIP - 9th", amount |-> 10500000, date_hint |-> 9],
       [item |-> "SIP - 11th", amount |-> 500000, date_hint |-> 11] >>

DEBTS ==
    << [type |-> "Cred EMIs", item |-> "Movers & Packers", amount |-> 23567000, due_day |-> 25],
       [type |-> "Cred EMIs", item |-> "CC & ITR", amount |-> 18273000, due_day |-> 28],
       [type |-> "Cred EMIs", item |-> "Extra", amount |-> 17567000, due_day |-> 28],
       [type |-> "Loans", item |-> "Wedding Loan", amount |-> 33400000, due_day |-> 18],
       [type |-> "Loans", item |-> "Home Loan EMI", amount |-> 19000000, due_day |-> 20] >>

\* the event labels in ascending str order (Python compares code points)
LabelOrder ==
    << "Amex Bill", "Amex Bill Payment (CC)", "CC & ITR", "Extra", "Extra: Bonus/Other",
       "Extra: Extra", "HSBC Bill", "HSBC Bill Payment (CC)", "Home Loan EMI", "House Rent",
       "Movers & Packers", "Papa", "SIP - 11th", "SIP - 3rd", "SIP - 9th", "Salary",
       "Wedding Loan" >>

label_rank(str) == CHOOSE i \in DOMAIN LabelOrder : LabelOrder[i] = str

\* tuple comparison of two keys of the same length
RECURSIVE LexLT(_, _)
LexLT(a, b) ==
    IF a = <<>> THEN FALSE
    ELSE IF Head(a) # Head(b) THEN Head(a) < Head(b)
    ELSE LexLT(Tail(a), Tail(b))

\* a stable sort (sorted(), sort_values on these short tables) by insertion:
\* position i goes behind every position whose key is not greater
RECURSIVE insert_sorted(_, _, _)
insert_sorted(keys, srt, i) ==
    IF srt = <<>> THEN <<i>>
    ELSE IF LexLT(keys[i], keys[Head(srt)]) THEN <<i>> \o srt
    ELSE <<Head(srt)>> \o insert_sorted(keys, Tail(srt), i)

RECURSIVE sort_positions(_, _)
sort_positions(keys, n) ==
    IF n = 0 THEN <<>> ELSE insert_sorted(keys, sort_positions(keys, n - 1), n)

stable_sort(rows, keys) ==
    LET ks  == AsList(keys)
        rs  == AsList(rows)
        pos == sort_positions(ks, Len(rs))
    IN  AsList([n \in DOMAIN rs |-> rs[pos[n]]])

\* regulars_section / the regulars block of finance_dashboard.py: the
\* cash_out_df of the selected month, with the Paid column read from the paid
\* flags (key "CASH::<item>::<due date>").  ui_sections rounds the amounts.
cash_key(item, due) == <<"CASH", item, isoformat(due)>>

flag_get(flags, key) == IF key \in DOMAIN flags THEN flags[key] ELSE FALSE

\* date(y, m, min(d, month_range(y, m)[1].day))
due_in_month(d, last) == Min2(d, last.d)

all_cash_outs(y, m, last, rounded) ==
    [i \in DOMAIN REGULARS |->
        [Item |-> REGULARS[i].item,
         Amount |-> IF rounded THEN round2(REGULARS[i].amount) ELSE REGULARS[i].amount,
         DueDate |-> Date(y, m, due_in_month(REGULARS[i].date_hint, last)),
         Type |-> "Regular"]]
      \o [i \in DOMAIN DEBTS |->
            [Item |-> DEBTS[i].item,
             Amount |-> IF rounded THEN round2(DEBTS[i].amount) ELSE DEBTS[i].amount,
             DueDate |-> Date(y, m, due_in_month(DEBTS[i].due_day, last)),
             Type |-> DEBTS[i].type]]

\* sort_values(by="Due Date")
sort_by_due(all) == stable_sort(all, [i \in DOMAIN all |-> <<toordinal(all[i].DueDate)>>])

with_key_and_paid(srt, flags) ==
    AsList([i \in DOMAIN srt |->
        [Item |-> srt[i].Item, Amount |-> srt[i].Amount, DueDate |-> srt[i].DueDate,
         Type |-> srt[i].Type, Key |-> cash_key(srt[i].Item, srt[i].DueDate),
         Paid |-> flag_get(flags, cash_key(srt[i].Item, srt[i].DueDate))]])

cash_out_rows(y, m, flags, rounded) ==
    with_key_and_paid(sort_by_due(all_cash_outs(y, m, fd_month_range(y, m)[2], rounded)),
                      flags)

\* a loop that would write every shown key as paid
write_paid_flags_marks_paid(flags, table, clicked) ==
    LET keys == {table[i].Key : i \in DOMAIN table}
    IN  [kk \in (DOMAIN flags) \cup keys |-> IF kk \in keys THEN TRUE ELSE flags[kk]]

\* the checkbox loop: every row's key is written with its checkbox value, the
\* stored value unless the user has just clicked the box of the item `clicked`
write_paid_flags(flags, table, clicked) ==
    LET keys == {table[i].Key : i \in DOMAIN table}
        val(i) == IF table[i].Item = clicked THEN ~table[i].Paid ELSE table[i].Paid
    IN  [kk \in (DOMAIN flags) \cup keys |->
            IF kk \in keys
            THEN val(CHOOSE i \in DOMAIN table : table[i].Key = kk)
            ELSE flags[kk]]

\* cash_out_df["Paid"] read again after the loop
reread_paid(table, flags) ==
    AsList([i \in DOMAIN table |-> [table[i] EXCEPT !.Paid = flag_get(flags, table[i].Key)]])

\* what a run of the regulars section leaves: the paid flags and the table
regulars_return(shown, flags) == [flags |-> flags, table |-> reread_paid(shown, flags)]

regulars_shown(shown, flags, clicked) ==
    regulars_return(shown, write_paid_flags(flags, shown, clicked))

regulars_section(y, m, flags, clicked, rounded) ==
    regulars_shown(cash_out_rows(y, m, flags, rounded), flags, clicked)

Event(dt, label, amount, type, flow) ==
    [Date |-> dt, Event |-> label, Amount |-> amount, Type |-> type, flow |-> flow]

\* sequence of the elements of s that satisfy the flags keep[i]
RECURSIVE select_seq(_, _, _)
select_seq(s, keep, i) ==
    IF i > Len(s) THEN <<>>
    ELSE (IF keep[i] THEN <<s[i]>> ELSE <<>>) \o select_seq(s, keep, i + 1)

\* sorted(card names)
SortedCards == <<"Amex", "HSBC">>

\* the due-month search of the helpers module that app.py and ui_sections.py
\* import: the search of section 4.4 over the session's per-month overrides
find_cycle_due_in_month(store, cycles, card, ty, tm) ==
    find_cycle_whose_due_falls_in_month(store, cycles, card, ty, tm)

\* df.loc[mask, "Amount"].sum()
mask_sum(rows, card, start_dt, end_dt) ==
    sum_amounts(rows, sort_by_date(rows, liability_mask(rows, card, start_dt, end_dt)))

\* --- ui_sections.cashflow_section ----------------------------------------
salary_events(y, m, sal) ==
    IF sal.amount > 0
    THEN <<Event(Date(y, m, Min2(sal.payday, month_range(y, m)[2].d)), "Salary",
                 round2(sal.amount), "Income", "in")>>
    ELSE <<>>

inflow_events(y, m, inflows) ==
    LET amt(i) == round2(inflows[i].Amount)
        src(i) == IF inflows[i].Source = "" THEN "Extra" ELSE inflows[i].Source
        keep   == [i \in DOMAIN inflows |->
                      inflows[i].Date.y = y /\ inflows[i].Date.m = m /\ amt(i) > 0]
        evs    == [i \in DOMAIN inflows |->
                      Event(inflows[i].Date, "Extra: " \o src(i), amt(i), "Income", "in")]
    IN  select_seq(AsList(evs), AsList(keep), 1)

\* rows_due_sidebar: (card, due date, payable) of the cards with payable > 0
due_sidebar_row(card, c, rows) ==
    [card |-> card, due |-> c.due,
     payable |-> round2(mask_sum(rows, card, c.cs, c.ce))]

rows_due_sidebar(rows, store, cycles, y, m) ==
    AsList([i \in DOMAIN SortedCards |->
        due_sidebar_row(SortedCards[i],
                        find_cycle_due_in_month(store, cycles, SortedCards[i], y, m), rows)])

cc_events_of(due_rows, y, m) ==
    select_seq(AsList([i \in DOMAIN due_rows |->
                   Event(due_rows[i].due, due_rows[i].card \o " Bill Payment (CC)",
                         round2(due_rows[i].payable), "CC Bill", "out")]),
               AsList([i \in DOMAIN due_rows |->
                   /\ due_rows[i].payable > 0
                   /\ due_rows[i].due.m = m /\ due_rows[i].due.y = y]),
               1)

cc_bill_events(rows, store, cycles, y, m) ==
    cc_events_of(rows_due_sidebar(rows, store, cycles, y, m), y, m)

regular_events_paid_too(y, m, table, rounded) ==
    AsList([i \in DOMAIN table |->
        Event(table[i].DueDate, table[i].Item,
              IF rounded THEN round2(table[i].Amount) ELSE table[i].Amount,
              "Regular/EMI", "out")])

regular_events(y, m, table, rounded) ==
    LET keep == [i \in DOMAIN table |->
                    ~table[i].Paid /\ table[i].DueDate.m = m /\ table[i].DueDate.y = y]
        evs  == [i \in DOMAIN table |->
                    Event(table[i].DueDate, table[i].Item,
                          IF rounded THEN round2(table[i].Amount) ELSE table[i].Amount,
                          "Regular/EMI", "out")]
    IN  select_seq(AsList(evs), AsList(keep), 1)

\* _priority(e): (date, 0 for an inflow and 1 for an outflow, label)
priority_no_flow(e) == <<toordinal(e.Date), 0, label_rank(e.Event)>>

priority(e) == <<toordinal(e.Date), IF e.flow = "in" THEN 0 ELSE 1, label_rank(e.Event)>>

LedgerRow(e, amt, bal) ==
    [Date |-> e.Date, Event |-> e.Event, flow |-> e.flow, Amount |-> amt, Balance |-> bal]

\* the loop over the sorted events: the rows from event i on
RECURSIVE cashflow_ledger_subtract_all(_, _, _)
cashflow_ledger_subtract_all(events, i, balance) ==
    IF i > Len(events) THEN <<>>
    ELSE LET amt == round2(events[i].Amount)
             bal == round2(balance - amt)
         IN  <<LedgerRow(events[i], amt, round2(bal))>>
                 \o cashflow_ledger_subtract_all(events, i + 1, bal)

RECURSIVE cashflow_ledger(_, _, _)
cashflow_ledger(events, i, balance) ==
    IF i > Len(events) THEN <<>>
    ELSE LET amt == round2(events[i].Amount)
             bal == IF events[i].flow = "in" THEN round2(balance + amt)
                    ELSE round2(balance - amt)
         IN  <<LedgerRow(events[i], amt, round2(bal))>> \o cashflow_ledger(events, i + 1, bal)

\* style_low_balance: the style of the balance cell of every row
style_low_balance(rows, buffer) ==
    LET red == [i \in DOMAIN rows |-> IF rows[i].Balance < 0 THEN "deficit" ELSE ""]
    IN  [i \in DOMAIN rows |->
            IF rows[i].Balance >= 0 /\ rows[i].Balance < buffer THEN "low" ELSE red[i]]

Sim(fn, raised, rows, styles) ==
    [fn |-> fn, raised |-> raised, rows |-> rows, styles |-> styles]

cashflow_events(rows, store, cycles, y, m, sal, inflows, table) ==
    salary_events(y, m, sal) \o inflow_events(y, m, inflows)
      \o cc_bill_events(rows, store, cycles, y, m) \o regular_events(y, m, table, TRUE)

\* sorted(events, key=_priority)
sort_events(events) == stable_sort(events, [i \in DOMAIN events |-> priority(events[i])])

\* sim_df and its styles; override_extra_buf is the session value that
\* start_balance_override_section has just stored, the extra_buffer it returned
cashflow_shown(rows2, buffer) ==
    Sim("cashflow_section", FALSE, rows2, style_low_balance(rows2, buffer))

cashflow_section(rows, store, cycles, y, m, sal, inflows, table, start, buffer) ==
    cashflow_shown(
        cashflow_ledger(
            sort_events(cashflow_events(rows, store, cycles, y, m, sal, inflows, table)),
            1, round2(start + buffer)),
        buffer)

\* --- the simulator of finance_dashboard.py -------------------------------
fd_due_sidebar_row(card, c, rows) ==
    [card |-> card, due |-> c.due, payable |-> mask_sum(rows, card, c.cs, c.ce)]

fd_rows_due_sidebar(rows, store, cycles, y, m) ==
    AsList([i \in DOMAIN SortedCards |->
        fd_due_sidebar_row(SortedCards[i],
                           find_cycle_whose_due_falls_in_month(store, cycles, SortedCards[i],
                                                               y, m),
                           rows)])

fd_cc_events_of(due_rows, y, m) ==
    select_seq(AsList([i \in DOMAIN due_rows |->
                   Event(due_rows[i].due, due_rows[i].card \o " Bill Payment (CC)",
                         due_rows[i].payable, "CC Bill", "out")]),
               AsList([i \in DOMAIN due_rows |->
                   /\ due_rows[i].due.m = m /\ due_rows[i].due.y = y
                   /\ due_rows[i].payable > 0]),
               1)

fd_events(rows, store, cycles, y, m, table) ==
    fd_cc_events_of(fd_rows_due_sidebar(rows, store, cycles, y, m), y, m)
      \o regular_events(y, m, table, FALSE)

\* sort_values(by="Date")
sort_by_date_col(events) ==
    stable_sort(events, [i \in DOMAIN events |-> <<toordinal(events[i].Date)>>])

\* drop_duplicates(subset=["Date", "Event"]): the first of equal rows is kept
drop_duplicates(evs) ==
    select_seq(evs,
               AsList([i \in DOMAIN evs |->
                   ~\E j \in 1..(i - 1) :
                       evs[j].Date = evs[i].Date /\ evs[j].Event = evs[i].Event]),
               1)

\* balance -= amount; the row shows round(balance, 2)
RECURSIVE fd_ledger(_, _, _)
fd_ledger(events, i, balance) ==
    IF i > Len(events) THEN <<>>
    ELSE <<LedgerRow(events[i], events[i].Amount, round2(balance - events[i].Amount))>>
             \o fd_ledger(events, i + 1, balance - events[i].Amount)

fd_shown(rows2, buffer) == Sim("fd_simulator", FALSE, rows2, style_low_balance(rows2, buffer))

\* pd.DataFrame([]) has no "Date" column: sort_values raises KeyError
fd_simulate(events, start, buffer) ==
    IF events = <<>> THEN Sim("fd_simulator", TRUE, <<>>, <<>>)
    ELSE fd_shown(fd_ledger(drop_duplicates(sort_by_date_col(events)), 1, start + buffer),
                  buffer)

fd_simulator(rows, store, cycles, y, m, table, start, buffer) ==
    fd_simulate(fd_events(rows, store, cycles, y, m, table), start, buffer)

\* --- ui/bills.py: bills_section (month view "Current") -------------------
\* a row of the "due" tab
bills_due_row(card, cyc, rows) ==
    [Card |-> card, DueDate |-> cyc.due,
     Payable |-> round2(sum_liability(rows, card, cyc.cs, cyc.ce).amount)]

\* rows_due: one row per card, whatever its due month
bills_rows_due(rows, cycles, ovs, anchor) ==
    AsList([i \in DOMAIN SortedCards |->
        bills_due_row(SortedCards[i],
                      card_bill_due_in_month(SortedCards[i], cycles[SortedCards[i]], anchor,
                                             ovs).res,
                      rows)])

\* due_df: sort_values("Due Date")
sort_rows_due(all) == stable_sort(all, [i \in DOMAIN all |-> <<toordinal(all[i].DueDate)>>])

bills_events(due_df) ==
    AsList([i \in DOMAIN due_df |->
        Event(due_df[i].DueDate, due_df[i].Card \o " Bill", due_df[i].Payable, "CC Bill",
              "out")])

\* out_rows: balance -= amount; the row shows round(amount, 2), round(balance, 2)
RECURSIVE bills_ledger(_, _, _)
bills_ledger(events, i, balance) ==
    IF i > Len(events) THEN <<>>
    ELSE <<LedgerRow(events[i], round2(events[i].Amount),
                     round2(balance - events[i].Amount))>>
             \o bills_ledger(events, i + 1, balance - events[i].Amount)

\* _style: only a negative balance is styled
bills_style(rows) ==
    [i \in DOMAIN rows |-> IF rows[i].Balance < 0 THEN "deficit" ELSE ""]

bills_shown(rows2) == Sim("bills_section", FALSE, rows2, bills_style(rows2))

\* a stored override that does not parse makes get_effective_cycle raise in
\* the tabs
bills_raises(cycles, ovs, ref_date) ==
    \E c \in DOMAIN cycles :
        \/ get_effective_cycle(c, cycles[c], ref_date.y, ref_date.m, ovs).raised
        \/ card_bill_due_in_month(c, cycles[c], ref_date, ovs).raised

\* an empty feed returns before any tab
bills_section(rows, cycles, ovs, ref_date, start, extra_cash) ==
    IF rows = <<>> THEN Sim("bills_section", FALSE, <<>>, <<>>)
    ELSE IF bills_raises(cycles, ovs, ref_date) THEN Sim("bills_section", TRUE, <<>>, <<>>)
    ELSE bills_shown(
             bills_ledger(
                 sort_by_date_col(
                     bills_events(sort_rows_due(bills_rows_due(rows, cycles, ovs, ref_date)))),
                 1, start + extra_cash))

\* ------------------------------------------------------------------------
\* Specification of the date helpers: one call of safe_date or shift_month
\* ------------------------------------------------------------------------
Shifts == (0 - MaxShift)..MaxShift
NoOut == [fn |-> "none", val |-> NoDate]

DateIdle == /\ day = 0 /\ shift_k = 0 /\ date_out = NoOut
CycleIdle == /\ card_row = NoRule /\ cycle = NoCycle

CallIdle == year = 0 /\ month = 0
TxIdle == df = <<>> /\ liability = NoLiability
NoSalary == [amount |-> 0, payday |-> 1]
NoSim == [fn |-> "none", raised |-> FALSE, rows |-> <<>>, styles |-> <<>>]
NoDetected == [fn |-> "none", card |-> ""]
CardIdle == payment_mode = <<>> /\ card_overrides = <<>> /\ detected = NoDetected
NoStyled == [fn |-> "none", rows |-> <<>>, styles |-> <<>>]
TrendIdle ==
    /\ monthly = <<>> /\ this_ym = 0 /\ window = "" /\ exclude_current = FALSE
    /\ budget_cap = 0 /\ styled = NoStyled
NoTotals == [fn |-> "none", none |-> TRUE, index |-> {}, columns |-> {}, cells |-> <<>>]
MapIdle == raw_df = <<>> /\ card_aliases = <<>> /\ totals = NoTotals
NoNormalized == [fn |-> "none", none |-> FALSE, rows |-> <<>>]
CsvIdle == csv_rows = [missing |-> FALSE, rows |-> <<>>] /\ normalized = NoNormalized
NoFile == [exists |-> FALSE, text |-> <<>>]
NoObj == [some |-> FALSE, val |-> <<>>]
NoLoaded == [fn |-> "none", val |-> <<>>]
FileIdle ==
    /\ fs_path = NoFile /\ fs_tmp = NoFile /\ save_pc = "idle" /\ save_obj = <<>>
    /\ committed = NoObj /\ loaded = NoLoaded
ExtIdle == CardIdle /\ TrendIdle /\ MapIdle /\ CsvIdle /\ FileIdle
CashIdle ==
    /\ start_balance = 0 /\ extra_buffer = 0 /\ salary = NoSalary
    /\ extra_inflows = <<>> /\ paid_flags = <<>> /\ sim = NoSim
OvIdle ==
    /\ program = "none" /\ bill_cycles = <<>> /\ overrides = <<>>
    /\ card_date_overrides = <<>> /\ lookup = NoLookup

InitDate ==
    /\ OvIdle /\ TxIdle /\ CashIdle /\ ExtIdle
    /\ year \in Years
    /\ month \in Months
    /\ day \in AllDays
    /\ shift_k \in Shifts
    /\ date_out = NoOut
    /\ CycleIdle

SafeDate ==
    /\ date_out' = [fn |-> "safe_date", val |-> safe_date(year, month, day)]
    /\ UNCHANGED <<extVars, cashVars, callVars, day, shift_k, ruleVars, ovVars, txVars>>

FdSafeDate ==
    /\ date_out' = [fn |-> "fd_safe_date", val |-> fd_safe_date(year, month, day)]
    /\ UNCHANGED <<extVars, cashVars, callVars, day, shift_k, ruleVars, ovVars, txVars>>

\* shift_month is given the date (year, month, day), which must be a date
ShiftMonth ==
    /\ day <= monthrange_last(year, month)
    /\ date_out' = [fn |-> "shift_month", val |-> shift_month(Date(year, month, day), shift_k)]
    /\ UNCHANGED <<extVars, cashVars, callVars, day, shift_k, ruleVars, ovVars, txVars>>

NextDate == SafeDate \/ FdSafeDate \/ ShiftMonth

SpecDate == InitDate /\ [][NextDate]_vars

\* Length of a calendar month, as the Gregorian calendar defines it
MonthLength(y, m) ==
    CASE m \in {1, 3, 5, 7, 8, 10, 12} -> 31
      [] m \in {4, 6, 9, 11} -> 30
      [] m = 2 -> IF (y % 4 = 0 /\ y % 100 # 0) \/ y % 400 = 0 THEN 29 ELSE 28

\* C9: safe_date(y, m, d) for d in 1..31 is the date of month (y, m) with day
\* min(d, length of the month): 31 gives 30 in a 30-day month, a day above the
\* length of February gives 28 (29 in a leap year); the result is a valid date
\* of (y, m).
C9_SafeDateClamps ==
    date_out.fn = "safe_date" =>
        /\ date_out.val = Date(year, month, Min2(day, MonthLength(year, month)))
        /\ date_out.val.d \in 1..MonthLength(year, month)
        /\ (day = 31 /\ month \in {4, 6, 9, 11}) => date_out.val.d = 30
        /\ (month = 2 /\ day > 28 /\ year % 4 # 0) => date_out.val.d = 28
        /\ (month = 2 /\ day > 29 /\ year % 4 = 0 /\ year % 100 # 0) => date_out.val.d = 29

C9_Witness ==
    /\ date_out.fn = "safe_date"
    /\ month = 2 /\ day = 30 /\ year = 2024
    /\ date_out.val = Date(2024, 2, 29)

\* ------------------------------------------------------------------------
\* Specification of the rule-based cycle: one call for (card_row, year, month)
\* ------------------------------------------------------------------------
InitCycle ==
    /\ OvIdle /\ TxIdle /\ CashIdle /\ ExtIdle
    /\ year \in Years
    /\ month \in Months
    /\ card_row \in Rules
    /\ cycle = NoCycle
    /\ DateIdle

CycleWindowForMonth ==
    /\ cycle' = cycle_window_for_month(card_row, year, month)
    /\ UNCHANGED <<extVars, cashVars, callVars, dateVars, card_row, ovVars, txVars>>

GetOverriddenCycleDays ==
    /\ cycle' = fd_cycle_from_days(card_row, year, month)
    /\ UNCHANGED <<extVars, cashVars, callVars, dateVars, card_row, ovVars, txVars>>

\* find_cycle_whose_due_falls_in_month(card, year, month) with no override
\* stored and the rule of the card in BILL_CYCLES, as the first call of a run
FindCycleNoOverrides ==
    /\ cycle = NoCycle
    /\ cycle' = [find_cycle_whose_due_falls_in_month(<<>>, [c \in {"Amex"} |-> card_row],
                                                     "Amex", year, month)
                    EXCEPT !.fn = "find_cycle"]
    /\ UNCHANGED <<extVars, cashVars, callVars, dateVars, card_row, ovVars, txVars>>

NextCycle == CycleWindowForMonth \/ GetOverriddenCycleDays \/ FindCycleNoOverrides

SpecCycle == InitCycle /\ [][NextCycle]_vars

ValidRule(row) ==
    /\ row.start_day \in 1..31 /\ row.end_day \in 1..31 /\ row.due_day \in 1..31
    /\ row.due_offset \in 0..3

\* C1: for every valid rule and every (year, month) the rule-based cycle has
\* cycle_start <= cycle_end (helpers.cycle_window_for_month and the day-based
\* branch of get_overridden_cycle).
C1_StartNotAfterEnd ==
    (cycle.fn # "none" /\ ValidRule(card_row)) => DateLE(cycle.cs, cycle.ce)

C1_Witness ==
    /\ cycle.fn = "helpers"
    /\ card_row.start_day > card_row.end_day
    /\ card_row.end_day > MonthLength(year, month)
    /\ DateLT(cycle.cs, cycle.ce)

\* C8: the due date of cycle_window_for_month lies in month
\* ((month + due_offset - 1) mod 12) + 1 of year
\* year + floor((month + due_offset - 1) / 12).
C8_DueMonthWraps ==
    (cycle.fn = "helpers" /\ card_row.due_offset \in 0..3) =>
        /\ cycle.due.m = ((month + card_row.due_offset - 1) % 12) + 1
        /\ cycle.due.y = year + ((month + card_row.due_offset - 1) \div 12)

C8_Witness ==
    /\ cycle.fn = "helpers"
    /\ month = 12 /\ card_row.due_offset = 1
    /\ cycle.due.m = 1 /\ cycle.due.y = year + 1

PrevMonth(y, m) == IF m = 1 THEN <<y - 1, 12>> ELSE <<y, m - 1>>
InMonth(dt, y, m) == dt.y = y /\ dt.m = m

\* C10: with start_day > end_day, cycle_window_for_month returns a cycle_start
\* in the calendar month before (y, m), a cycle_end in (y, m) and a bill
\* generation date equal to cycle_end; with start_day <= end_day both
\* cycle_start and cycle_end lie in (y, m).
C10_StartMonth ==
    cycle.fn = "helpers" =>
        IF card_row.start_day > card_row.end_day
        THEN /\ InMonth(cycle.cs, PrevMonth(year, month)[1], PrevMonth(year, month)[2])
             /\ InMonth(cycle.ce, year, month)
             /\ cycle.bill = cycle.ce
        ELSE /\ InMonth(cycle.cs, year, month)
             /\ InMonth(cycle.ce, year, month)

C10_Witness ==
    /\ cycle.fn = "helpers"
    /\ card_row = Rule(22, 21, 8, 1) /\ year = 2023 /\ month = 10
    /\ cycle.cs = Date(2023, 9, 22) /\ cycle.ce = Date(2023, 10, 21)
    /\ cycle.bill = Date(2023, 10, 21) /\ cycle.due = Date(2023, 11, 8)

\* ------------------------------------------------------------------------
\* Specification of the override stores and the effective-cycle lookups.
\* The two programs keep their overrides differently: the app (helpers.py,
\* ui/overrides.py) in a list of dicts, finance_dashboard.py in a session
\* dict keyed by "YYYY-MM::Card".
\* ------------------------------------------------------------------------
Cards == {"Amex", "HSBC"}

\* the months the override editors are opened for, the months looked up and
\* the target months searched
EditMonths == {<<2023, 12>>, <<2024, 1>>}
LookupMonths == EditMonths \cup {<<2024, 2>>}
TargetMonths == {<<2024, 1>>, <<2024, 2>>}

\* (cycle start, cycle end, due date) entered in the date inputs
OvTriples ==
    { <<Date(2023, 12, 22), Date(2024, 1, 21), Date(2024, 1, 30)>>,
      <<Date(2023, 11, 20), Date(2023, 12, 19), Date(2024, 2, 10)>>,
      <<Date(2024, 1, 25), Date(2024, 1, 5), Date(2024, 3, 3)>> }

\* the day rules the cards are set up with
CycleChoices ==
    { [c \in Cards |-> IF c = "Amex" THEN Rule(22, 21, 10, 1) ELSE Rule(8, 7, 27, 0)],
      [c \in Cards |-> IF c = "Amex" THEN Rule(25, 24, 13, 3) ELSE Rule(31, 30, 31, 2)] }

OvRec(t) == [start |-> isoformat(t[1]), end |-> isoformat(t[2]), due |-> isoformat(t[3])]

\* records of an imported JSON file: any texts under the three keys
ImportRecs ==
    { OvRec(t) : t \in OvTriples }
      \cup { [start |-> <<2024, 2, 30>>, end |-> <<2024, 3, 1>>, due |-> <<2024, 3, 20>>],
             [start |-> <<2024, 1, 1>>, end |-> <<2024, 1, 31>>, due |-> <<>>] }

MaxOverrides == 2
MaxIds == 2
Ids == 1..MaxIds

InitOv ==
    /\ CallIdle /\ DateIdle /\ CycleIdle /\ TxIdle /\ CashIdle /\ ExtIdle
    /\ program \in {"app", "dashboard"}
    /\ bill_cycles \in CycleChoices
    /\ overrides = <<>>
    /\ card_date_overrides = <<>>
    /\ lookup = NoLookup

\* --- finance_dashboard.py: per-card custom dates editor -------------------
\* dict.update
dict_update(d, e) ==
    [kk \in (DOMAIN d) \cup (DOMAIN e) |-> IF kk \in DOMAIN e THEN e[kk] ELSE d[kk]]

\* "Save month overrides": start > end is swapped
save_fixed_noswap(by, edited) ==
    [kk \in {override_key(by[1], by[2], c) : c \in Cards} |-> OvRec(edited[kk[3]])]

save_fixed(by, edited) ==
    [kk \in {override_key(by[1], by[2], c) : c \in Cards} |->
        LET rec == OvRec(edited[kk[3]])
            s0  == fromisoformat(rec.start).val
            e0  == fromisoformat(rec.end).val
            s   == IF DateLT(e0, s0) THEN e0 ELSE s0
            e   == IF DateLT(e0, s0) THEN s0 ELSE e0
        IN  [start |-> isoformat(s), end |-> isoformat(e), due |-> rec.due]]

SaveMonthOverrides ==
    /\ program = "dashboard"
    /\ lookup = NoLookup
    /\ \E by \in EditMonths, edited \in [Cards -> OvTriples] :
          card_date_overrides' = dict_update(card_date_overrides, save_fixed(by, edited))
    /\ lookup' = NoLookup
    /\ UNCHANGED <<extVars, cashVars, callVars, dateVars, ruleVars, txVars, program, bill_cycles, overrides>>

ClearMonthOverrides ==
    /\ program = "dashboard"
    /\ lookup = NoLookup
    /\ \E by \in EditMonths :
          card_date_overrides' =
              [kk \in {q \in DOMAIN card_date_overrides : ~key_in_month(q, by[1], by[2])}
                  |-> card_date_overrides[kk]]
    /\ lookup' = NoLookup
    /\ UNCHANGED <<extVars, cashVars, callVars, dateVars, ruleVars, txVars, program, bill_cycles, overrides>>

\* "Import this month JSON": the entries of the file whose key starts with
\* the month and that hold the three fields
ImportMonthOverrides ==
    /\ program = "dashboard"
    /\ lookup = NoLookup
    /\ \E by \in EditMonths, cs \in (SUBSET Cards) \ {{}} :
          \E valid \in [{override_key(by[1], by[2], c) : c \in cs} -> ImportRecs] :
              card_date_overrides' = dict_update(card_date_overrides, valid)
    /\ lookup' = NoLookup
    /\ UNCHANGED <<extVars, cashVars, callVars, dateVars, ruleVars, txVars, program, bill_cycles, overrides>>

GetOverriddenCycle ==
    /\ program = "dashboard"
    /\ lookup = NoLookup
    /\ \E card \in Cards, ym \in LookupMonths :
          lookup' = [fn |-> "get_overridden_cycle", card |-> card, y |-> ym[1], m |-> ym[2],
                     raised |-> FALSE,
                     res |-> get_overridden_cycle(card_date_overrides, bill_cycles, card,
                                                  ym[1], ym[2], TRUE)]
    /\ UNCHANGED <<extVars, cashVars, callVars, dateVars, ruleVars, txVars, program, bill_cycles, overrides,
                   card_date_overrides>>

FindCycleWhoseDueFallsInMonth ==
    /\ program = "dashboard"
    /\ lookup = NoLookup
    /\ \E card \in Cards, ym \in TargetMonths :
          lookup' = [fn |-> "find_cycle", card |-> card, y |-> ym[1], m |-> ym[2],
                     raised |-> FALSE,
                     res |-> find_cycle_whose_due_falls_in_month(
                                 card_date_overrides, bill_cycles, card, ym[1], ym[2])]
    /\ UNCHANGED <<extVars, cashVars, callVars, dateVars, ruleVars, txVars, program, bill_cycles, overrides,
                   card_date_overrides>>

\* --- app: ui/overrides.py and helpers.py ---------------------------------
Override(id, card_id, y, m, t) ==
    [id |-> id, card_id |-> card_id, year |-> y, month |-> m,
     cycle_start |-> isoformat(t[1]), cycle_end |-> isoformat(t[2]),
     due_date |-> isoformat(t[3])]

IdsOf(ovs) == {ovs[i].id : i \in DOMAIN ovs}

\* the Save branch of overrides_crud_section: the list it returns
crud_save(ovs, new) ==
    LET found   == new.id \in IdsOf(ovs)
        updated == [i \in DOMAIN ovs |-> IF ovs[i].id = new.id THEN new ELSE ovs[i]]
    IN  IF found THEN updated ELSE Append(updated, new)

\* the Delete branch: the list it returns
RECURSIVE crud_delete(_, _)
crud_delete(ovs, del_id) ==
    IF ovs = <<>> THEN <<>>
    ELSE IF Head(ovs).id # del_id THEN <<Head(ovs)>> \o crud_delete(Tail(ovs), del_id)
    ELSE crud_delete(Tail(ovs), del_id)

\* Save with an id typed in the form (row_id), or with a fresh uuid4
OverridesSave ==
    /\ program = "app"
    /\ lookup = NoLookup
    /\ \E ref \in EditMonths, card_choice \in Cards, t \in OvTriples, id \in Ids :
          /\ id \in IdsOf(overrides) \/ Len(overrides) < MaxOverrides
          /\ overrides' = crud_save(overrides, Override(id, card_choice, ref[1], ref[2], t))
    /\ lookup' = NoLookup
    /\ UNCHANGED <<extVars, cashVars, callVars, dateVars, ruleVars, txVars, program, bill_cycles, card_date_overrides>>

OverridesDelete ==
    /\ program = "app"
    /\ lookup = NoLookup
    /\ overrides # <<>>
    /\ \E del_id \in IdsOf(overrides) : overrides' = crud_delete(overrides, del_id)
    /\ lookup' = NoLookup
    /\ UNCHANGED <<extVars, cashVars, callVars, dateVars, ruleVars, txVars, program, bill_cycles, card_date_overrides>>

GetEffectiveCycle ==
    /\ program = "app"
    /\ lookup = NoLookup
    /\ \E card \in Cards, ym \in LookupMonths :
          LET r == get_effective_cycle(card, bill_cycles[card], ym[1], ym[2], overrides)
          IN  lookup' = [fn |-> "get_effective_cycle", card |-> card, y |-> ym[1],
                         m |-> ym[2], raised |-> r.raised, res |-> r.res]
    /\ UNCHANGED <<extVars, cashVars, callVars, dateVars, ruleVars, txVars, program, bill_cycles, overrides,
                   card_date_overrides>>

CardBillDueInMonth ==
    /\ program = "app"
    /\ lookup = NoLookup
    /\ \E card \in Cards, ym \in TargetMonths :
          LET r == card_bill_due_in_month(card, bill_cycles[card], Date(ym[1], ym[2], 1),
                                          overrides)
          IN  lookup' = [fn |-> "card_bill_due_in_month", card |-> card, y |-> ym[1],
                         m |-> ym[2], raised |-> r.raised, res |-> r.res]
    /\ UNCHANGED <<extVars, cashVars, callVars, dateVars, ruleVars, txVars, program, bill_cycles, overrides,
                   card_date_overrides>>

\* the caller takes the returned cycle; the script is single-threaded, so the
\* next handler runs only after the call has returned
LookupReturn ==
    /\ lookup # NoLookup
    /\ lookup' = NoLookup
    /\ UNCHANGED <<extVars, cashVars, callVars, dateVars, ruleVars, txVars, program, bill_cycles, overrides,
                   card_date_overrides>>

NextOv ==
    \/ LookupReturn
    \/ SaveMonthOverrides
    \/ ClearMonthOverrides
    \/ ImportMonthOverrides
    \/ GetOverriddenCycle
    \/ FindCycleWhoseDueFallsInMonth
    \/ OverridesSave
    \/ OverridesDelete
    \/ GetEffectiveCycle
    \/ CardBillDueInMonth

SpecOv == InitOv /\ [][NextOv]_vars

SameDates(c, t) == c.cs = t[1] /\ c.ce = t[2] /\ c.bill = t[2] /\ c.due = t[3]
SameCycle(c1, c2) ==
    c1.cs = c2.cs /\ c1.ce = c2.ce /\ c1.bill = c2.bill /\ c1.due = c2.due

ValidText(t) == fromisoformat(t).ok
TextDate(t) == fromisoformat(t).val

\* the stored dates of the overrides kept for exactly (card, y, m)
ListOverridesFor(card, y, m) ==
    {i \in DOMAIN overrides :
        overrides[i].card_id = card /\ overrides[i].year = y /\ overrides[i].month = m}

StoredDatesFor(fn, card, y, m) ==
    IF fn = "get_effective_cycle"
    THEN { <<TextDate(overrides[i].cycle_start), TextDate(overrides[i].cycle_end),
             TextDate(overrides[i].due_date)>> :
             i \in {j \in ListOverridesFor(card, y, m) :
                       /\ ValidText(overrides[j].cycle_start)
                       /\ ValidText(overrides[j].cycle_end)
                       /\ ValidText(overrides[j].due_date)} }
    ELSE { <<TextDate(card_date_overrides[kk].start), TextDate(card_date_overrides[kk].end),
             TextDate(card_date_overrides[kk].due)>> :
             kk \in {q \in DOMAIN card_date_overrides \cap {<<y, m, card>>} :
                       /\ ValidText(card_date_overrides[q].start)
                       /\ ValidText(card_date_overrides[q].end)
                       /\ ValidText(card_date_overrides[q].due)} }

NoOverrideFor(fn, card, y, m) ==
    IF fn = "get_effective_cycle" THEN ListOverridesFor(card, y, m) = {}
    ELSE <<y, m, card>> \notin DOMAIN card_date_overrides

RuleCycleFor(fn, card, y, m) ==
    IF fn = "get_effective_cycle" THEN cycle_window_for_month(bill_cycles[card], y, m)
    ELSE fd_cycle_from_days(bill_cycles[card], y, m)

\* C2: whenever an override (with its three dates) is stored for exactly
\* (card, year, month), the effective cycle returned for that key has that
\* override's cycle start, cycle end and due date, whatever the day rule is;
\* when nothing is stored for that exact key the result is the rule-based
\* cycle, whatever is stored for other cards or months.
C2_OverrideWins ==
    lookup.fn \in {"get_effective_cycle", "get_overridden_cycle"} =>
        /\ \A t \in StoredDatesFor(lookup.fn, lookup.card, lookup.y, lookup.m) :
              ~lookup.raised /\ SameDates(lookup.res, t)
        /\ NoOverrideFor(lookup.fn, lookup.card, lookup.y, lookup.m) =>
              /\ ~lookup.raised
              /\ SameCycle(lookup.res, RuleCycleFor(lookup.fn, lookup.card, lookup.y, lookup.m))

\* the generation month k months from (y, m)
MonthsFrom(y, m, n) == LET t == y * 12 + (m - 1) + n IN <<t \div 12, (t % 12) + 1>>

C3_Cand(card, y, m, i) ==
    LET g == MonthsFrom(y, m, i - 3)
    IN  get_overridden_cycle(card_date_overrides, bill_cycles, card, g[1], g[2], TRUE)

C3_Matches(card, y, m) ==
    {i \in 1..5 : C3_Cand(card, y, m, i).due.y = y /\ C3_Cand(card, y, m, i).due.m = m}

C3_Dist(c, y, m) == Abs(toordinal(c.due) - toordinal(Date(y, m, 15)))

\* C3: find_cycle_whose_due_falls_in_month(card, y, m) looks at the effective
\* cycles of the generation months (y, m) - 2 .. (y, m) + 2; if some of them are
\* due in (y, m) it returns the first such candidate in that order, otherwise
\* the candidate whose due date is nearest in days to the 15th of (y, m).
C3_DueMonthSearch ==
    lookup.fn = "find_cycle" =>
        LET card == lookup.card
            y    == lookup.y
            m    == lookup.m
            hits == C3_Matches(card, y, m)
        IN  IF hits # {}
            THEN \E i \in hits :
                    /\ \A j \in hits : i <= j
                    /\ lookup.res = C3_Cand(card, y, m, i)
            ELSE /\ \E i \in 1..5 : lookup.res = C3_Cand(card, y, m, i)
                 /\ \A i \in 1..5 :
                        C3_Dist(lookup.res, y, m) <= C3_Dist(C3_Cand(card, y, m, i), y, m)

\* the nearest-candidate fallback taken because an override moved the due date
C3_Witness ==
    /\ lookup.fn = "find_cycle"
    /\ C3_Matches(lookup.card, lookup.y, lookup.m) = {}
    /\ bill_cycles[lookup.card].due_offset = 1
    /\ \E kk \in DOMAIN card_date_overrides : kk[3] = lookup.card

\* ------------------------------------------------------------------------
\* Specification of the liability aggregation: a feed of transactions and
\* one call of sum_liability on it
\* ------------------------------------------------------------------------
MaxTxns == 3

\* Card is None for a payment mode that maps to no card
NoCard == "<None>"

\* the window of the rule 22/21 for the bill generated in 2023-10, and a
\* one-day window
Windows ==
    { <<Date(2023, 9, 22), Date(2023, 10, 21)>>, <<Date(2023, 10, 21), Date(2023, 10, 21)>> }

BaseTxn == Txn("Amex", "expense", 1500000, Timestamp(Date(2023, 9, 25), 0))

\* rows of the feed: the base row with its card, its type, its amount or its
\* date changed
TxnRows ==
    {BaseTxn}
      \cup { [BaseTxn EXCEPT !.Card = c] : c \in {"HSBC", NoCard} }
      \cup { [BaseTxn EXCEPT !.type = t] : t \in {"Expense", "income", ""} }
      \cup { [BaseTxn EXCEPT !.Amount = a] : a \in {0, -250000, 25550} }
      \cup { [BaseTxn EXCEPT !.Date = ts] :
                ts \in {Timestamp(Date(2023, 9, 21), 23), Timestamp(Date(2023, 9, 22), 0),
                        Timestamp(Date(2023, 10, 21), 23), Timestamp(Date(2023, 10, 22), 0)} }

\* finance_dashboard.py keeps the parsed amount as it is; the app rounds it
\* to 2 decimals when it normalises the feed
FeedRows(prog) ==
    IF prog = "dashboard"
    THEN TxnRows \cup {[BaseTxn EXCEPT !.Amount = 12345]}
    ELSE TxnRows

BoundedSeqs(S, n) == UNION {[1..len -> S] : len \in 0..n}

InitLiab ==
    /\ CallIdle /\ DateIdle /\ CycleIdle /\ CashIdle /\ ExtIdle
    /\ program \in {"app", "dashboard"}
    /\ bill_cycles = <<>> /\ overrides = <<>> /\ card_date_overrides = <<>>
    /\ lookup = NoLookup
    /\ df \in BoundedSeqs(FeedRows(program), MaxTxns)
    /\ liability = NoLiability

SumLiability ==
    /\ program = "app"
    /\ \E card \in Cards, w \in Windows :
          liability' = sum_liability(df, card, w[1], w[2])
    /\ UNCHANGED <<extVars, cashVars, callVars, dateVars, ruleVars, ovVars, df>>

FdSumLiability ==
    /\ program = "dashboard"
    /\ \E card \in Cards, w \in Windows :
          liability' = fd_sum_liability(df, card, w[1], w[2])
    /\ UNCHANGED <<extVars, cashVars, callVars, dateVars, ruleVars, ovVars, df>>

NextLiab == SumLiability \/ FdSumLiability

SpecLiab == InitLiab /\ [][NextLiab]_vars

C4_Selected(rows, card, start_dt, end_dt) ==
    {i \in DOMAIN rows :
        /\ rows[i].Card = card
        /\ rows[i].type \in {"expense", "Expense", "EXPENSE"}
        /\ rows[i].Amount > 0
        /\ ~DateLT(rows[i].Date.date, start_dt)
        /\ ~DateLT(end_dt, rows[i].Date.date)}

RECURSIVE C4_Total(_, _)
C4_Total(rows, sel) ==
    IF sel = {} THEN 0
    ELSE LET i == CHOOSE j \in sel : TRUE IN rows[i].Amount + C4_Total(rows, sel \ {i})

\* C4: sum_liability(df, card, start, end) selects exactly the transactions
\* with Card = card, type 'expense' ignoring case, Amount > 0 and
\* start <= date <= end (both bounds included); the total is the sum of the
\* selected amounts and the count is their number.
C4_SumLiability ==
    liability.fn # "none" =>
        LET sel == C4_Selected(df, liability.card, liability.start, liability.end)
        IN  /\ {liability.sub[n] : n \in DOMAIN liability.sub} = sel
            /\ Len(liability.sub) = Cardinality(sel)
            /\ liability.amount = C4_Total(df, sel)
            /\ liability.count = Cardinality(sel)

\* a transaction on the first day and one on the last day of the window, both
\* counted, beside one that is left out
C4_Witness ==
    /\ liability.fn = "helpers"
    /\ liability.count = 2
    /\ Len(df) = 3
    /\ \E i \in DOMAIN df : df[i].Date.date = liability.start /\ df[i].Date.date # liability.end
    /\ \E i \in DOMAIN df : df[i].Date.date = liability.end /\ df[i].Date.hour = 23
    /\ liability.amount = 3000000

\* ------------------------------------------------------------------------
\* Specification of the cash-flow simulators: the inputs of one session and
\* the script runs that render the regulars table and the simulator.
\* program is "ui_sections" (app.py with ui_sections.py), "dashboard"
\* (finance_dashboard.py) or "app" (ui/bills.py).
\* ------------------------------------------------------------------------
MaxInflows == 2

\* number inputs of the sidebar; finance_dashboard.py takes whole rupees
StartChoices(prog) ==
    IF prog = "ui_sections" THEN {10000000, 10000004} ELSE {0, 10000000}

BufferChoices == {0, 5000000}

SalaryChoices == {NoSalary, [amount |-> 12000000, payday |-> 1]}

\* rows of the extra-inflows editor, amounts rounded when stored
InflowRecs ==
    { [Date |-> Date(2024, 1, 10), Source |-> "Bonus/Other", Amount |-> 3000000],
      [Date |-> Date(2024, 2, 1), Source |-> "", Amount |-> 500000],
      [Date |-> Date(2024, 1, 10), Source |-> "Bonus/Other", Amount |-> 0],
      [Date |-> Date(2024, 1, 10), Source |-> "Bonus/Other", Amount |-> 1000000] }

\* transaction feeds; the app rounds amounts to 2 decimals when it
\* normalises the feed
FeedA ==
    << Txn("Amex", "expense", 12000000, Timestamp(Date(2023, 12, 10), 0)),
       Txn("HSBC", "expense", 4000000, Timestamp(Date(2023, 12, 10), 0)) >>

FeedB(prog) ==
    << Txn("Amex", "Expense", 7000000, Timestamp(Date(2023, 11, 28), 0)),
       Txn("Amex", "expense", IF prog = "app" THEN 1234560 ELSE 1234565,
           Timestamp(Date(2024, 1, 10), 0)),
       Txn("HSBC", "expense", 4000000, Timestamp(Date(2023, 12, 10), 0)),
       Txn("HSBC", "income", 9000000, Timestamp(Date(2023, 12, 11), 0)) >>

CashFeeds(prog) ==
    IF prog = "ui_sections" THEN {FeedA, FeedB(prog)} ELSE {<<>>, FeedA, FeedB(prog)}

\* one stored override of the Amex cycle generated in 2023-12, or none
CashTriple == <<Date(2023, 12, 22), Date(2024, 1, 21), Date(2024, 1, 30)>>
\* the same cycle with its due date moved into the month after
LateTriple == <<Date(2023, 12, 22), Date(2024, 1, 21), Date(2024, 2, 10)>>
CashStores ==
    {<<>>, override_key(2023, 12, "Amex") :> OvRec(CashTriple),
     override_key(2023, 12, "Amex") :> OvRec(LateTriple)}
CashOverrides ==
    {<<>>, <<Override(1, "Amex", 2023, 12, CashTriple)>>,
     <<Override(1, "Amex", 2023, 12, LateTriple)>>}

\* paid flags left by earlier runs: none, or every item of the month paid
PaidChoices(y, m) ==
    LET table == cash_out_rows(y, m, <<>>, TRUE)
    IN  {<<>>, [kk \in {table[i].Key : i \in DOMAIN table} |-> TRUE]}

\* the checkbox the user clicked before the run, if any
NoClick == "<none>"
Clicks == {NoClick, "Papa", "SIP - 3rd"}

InitCash ==
    /\ DateIdle /\ CycleIdle /\ ExtIdle
    /\ lookup = NoLookup /\ liability = NoLiability
    /\ program \in {"ui_sections", "dashboard", "app"}
    /\ \E ym \in TargetMonths : year = ym[1] /\ month = ym[2]
    /\ bill_cycles \in CycleChoices
    /\ IF program = "app"
       THEN overrides \in CashOverrides /\ card_date_overrides = <<>>
       ELSE overrides = <<>> /\ card_date_overrides \in CashStores
    /\ df \in CashFeeds(program)
    /\ start_balance \in StartChoices(program)
    /\ extra_buffer \in BufferChoices
    /\ IF program = "ui_sections"
       THEN salary \in SalaryChoices /\ extra_inflows \in BoundedSeqs(InflowRecs, MaxInflows)
       ELSE salary = NoSalary /\ extra_inflows = <<>>
    /\ IF program = "app" THEN paid_flags = <<>> ELSE paid_flags \in PaidChoices(year, month)
    /\ sim = NoSim

\* one run of app.py: regulars_section, then cashflow_section.  A session is
\* followed up to its first rendering of the simulator.
CashflowSection ==
    /\ program = "ui_sections"
    /\ sim = NoSim
    /\ \E clicked \in Clicks :
          LET reg == regulars_section(year, month, paid_flags, clicked, TRUE)
          IN  /\ paid_flags' = reg.flags
              /\ sim' = cashflow_section(df, card_date_overrides, bill_cycles, year, month,
                                         salary, extra_inflows, reg.table, start_balance,
                                         extra_buffer)
    /\ UNCHANGED <<extVars, callVars, dateVars, ruleVars, ovVars, txVars, start_balance, extra_buffer,
                   salary, extra_inflows>>

\* one run of finance_dashboard.py: the regulars block, then the simulator
FdSimulator ==
    /\ program = "dashboard"
    /\ sim = NoSim
    /\ \E clicked \in Clicks :
          LET reg == regulars_section(year, month, paid_flags, clicked, FALSE)
          IN  /\ paid_flags' = reg.flags
              /\ sim' = fd_simulator(df, card_date_overrides, bill_cycles, year, month,
                                     reg.table, start_balance, extra_buffer)
    /\ UNCHANGED <<extVars, callVars, dateVars, ruleVars, ovVars, txVars, start_balance, extra_buffer,
                   salary, extra_inflows>>

\* --- the paid toggles of ui/regulars.regulars_crud_section ----------------
\* f"CC::{card_name}::{y}-{str(m).zfill(2)}"
cc_key(card, y, m) == <<"CC", card, y, m>>

card_due(card, cyc, rows) ==
    [card_name |-> card, due |-> cyc.due,
     amount |-> sum_liability(rows, card, cyc.cs, cyc.ce).amount]

\* card_dues: the cards with a positive amount due in the month of ref_date
\* (nothing when there is no feed)
card_dues_all(rows, cycles, ovs, ref_date) ==
    AsList([i \in DOMAIN SortedCards |->
        card_due(SortedCards[i],
                 card_bill_due_in_month(SortedCards[i], cycles[SortedCards[i]], ref_date,
                                        ovs).res,
                 rows)])

card_dues_kept(all, y, m) ==
    select_seq(all,
               AsList([i \in DOMAIN all |->
                   all[i].amount > 0 /\ all[i].due.y = y /\ all[i].due.m = m]),
               1)

card_dues(rows, cycles, ovs, ref_date) ==
    IF rows = <<>> THEN <<>>
    ELSE card_dues_kept(card_dues_all(rows, cycles, ovs, ref_date), ref_date.y, ref_date.m)

\* the checkbox loop over card_dues: every shown key is written with its
\* checkbox value, the stored value unless the box of `clicked` was clicked
write_cc_flags(flags, dues, y, m, clicked) ==
    [kk \in (DOMAIN flags) \cup {cc_key(dues[i].card_name, y, m) : i \in DOMAIN dues} |->
        IF \E i \in DOMAIN dues : cc_key(dues[i].card_name, y, m) = kk
        THEN (IF kk = cc_key(clicked, y, m) THEN ~flag_get(flags, kk) ELSE flag_get(flags, kk))
        ELSE flags[kk]]

regulars_crud_raises(rows, cycles, ovs, ref_date) ==
    /\ rows # <<>>
    /\ \E c \in DOMAIN cycles : card_bill_due_in_month(c, cycles[c], ref_date, ovs).raised

\* regulars_crud_section with no regular items, "Save Paid Flags" pressed:
\* the flags it returns; an exception leaves the flags as they were
regulars_crud_section(flags, ref_date, cycles, ovs, rows, clicked) ==
    IF regulars_crud_raises(rows, cycles, ovs, ref_date) THEN flags
    ELSE write_cc_flags(flags, card_dues(rows, cycles, ovs, ref_date), ref_date.y,
                        ref_date.m, clicked)

CardClicks == {NoClick, "Amex", "HSBC"}

\* one run of the paid toggles, saved
RegularsCrudSection ==
    /\ program = "app"
    /\ sim = NoSim
    /\ \E clicked \in CardClicks :
          paid_flags' = regulars_crud_section(paid_flags, Date(year, month, 1), bill_cycles,
                                              overrides, df, clicked)
    /\ UNCHANGED <<extVars, callVars, dateVars, ruleVars, ovVars, txVars, start_balance,
                   extra_buffer, salary, extra_inflows, sim>>

\* one rendering of bills_section for the month of ref_date
BillsSection ==
    /\ program = "app"
    /\ sim = NoSim
    /\ sim' = bills_section(df, bill_cycles, overrides, Date(year, month, 1), start_balance,
                            extra_buffer)
    /\ UNCHANGED <<extVars, callVars, dateVars, ruleVars, ovVars, txVars, start_balance, extra_buffer,
                   salary, extra_inflows, paid_flags>>

NextCash == CashflowSection \/ FdSimulator \/ RegularsCrudSection \/ BillsSection

SpecCash == InitCash /\ [][NextCash]_vars

\* net amount of rows 1..k of a ledger: inflows minus outflows
RECURSIVE C5_NetFlow(_, _)
C5_NetFlow(rows, k) ==
    IF k = 0 THEN 0
    ELSE C5_NetFlow(rows, k - 1)
           + (IF rows[k].flow = "in" THEN rows[k].Amount ELSE 0 - rows[k].Amount)

\* C5: in the ledger of cashflow_section the balance shown after the k-th row
\* is start_balance + extra_buffer, plus the inflow amounts of rows 1..k, minus
\* the outflow amounts of rows 1..k, for every k, every amount taken in
\* 2-decimal units (rounded to 1/100).
C5_RunningBalance ==
    sim.fn = "cashflow_section" =>
        \A k \in DOMAIN sim.rows :
            /\ sim.rows[k].Amount = round2(sim.rows[k].Amount)
            /\ sim.rows[k].Balance
                 = round2(start_balance + extra_buffer) + C5_NetFlow(sim.rows, k)

\* a ledger with an inflow after an outflow and an outflow after an inflow,
\* from a starting balance that is itself not a 2-decimal number
C5_Witness ==
    /\ sim.fn = "cashflow_section"
    /\ start_balance # round2(start_balance)
    /\ \E i, j, k \in DOMAIN sim.rows :
          /\ i < j /\ j < k
          /\ sim.rows[i].flow = "out" /\ sim.rows[j].flow = "in" /\ sim.rows[k].flow = "out"

\* C6: the ledger of cashflow_section is ordered: for rows i before j,
\* date_i <= date_j; on equal dates no outflow row precedes an inflow row; on
\* equal date and direction the labels are in ascending order.
C6_LedgerOrdered ==
    sim.fn = "cashflow_section" =>
        \A i, j \in DOMAIN sim.rows :
            i < j =>
                /\ DateLE(sim.rows[i].Date, sim.rows[j].Date)
                /\ sim.rows[i].Date = sim.rows[j].Date
                      => ~(sim.rows[i].flow = "out" /\ sim.rows[j].flow = "in")
                /\ (sim.rows[i].Date = sim.rows[j].Date /\ sim.rows[i].flow = sim.rows[j].flow)
                      => label_rank(sim.rows[i].Event) <= label_rank(sim.rows[j].Event)

\* a ledger where an inflow and an outflow share a date and the inflow has the
\* greater label, and where two outflows share a date
C6_Witness ==
    /\ sim.fn = "cashflow_section"
    /\ \E i, j \in DOMAIN sim.rows :
          /\ i < j /\ sim.rows[i].Date = sim.rows[j].Date
          /\ sim.rows[i].flow = "in" /\ sim.rows[j].flow = "out"
          /\ label_rank(sim.rows[i].Event) > label_rank(sim.rows[j].Event)
    /\ \E i, j \in DOMAIN sim.rows :
          /\ i < j /\ sim.rows[i].Date = sim.rows[j].Date
          /\ sim.rows[i].flow = "out" /\ sim.rows[j].flow = "out"
          /\ sim.rows[i].Event # sim.rows[j].Event

C7_Class(balance, buffer) ==
    IF balance < 0 THEN "deficit" ELSE IF balance < buffer THEN "low" ELSE ""

\* C7: every row of a simulator's ledger gets exactly one classification from
\* its balance: deficit when balance < 0, low-balance when 0 <= balance <
\* buffer, normal otherwise; for each of cashflow_section, the simulator of
\* finance_dashboard.py and bills_section.
C7_Classified ==
    sim.fn \in {"cashflow_section", "fd_simulator", "bills_section"} =>
        /\ Len(sim.styles) = Len(sim.rows)
        /\ \A k \in DOMAIN sim.rows :
              sim.styles[k] = C7_Class(sim.rows[k].Balance, extra_buffer)

\* ------------------------------------------------------------------------
\* Identity resolver: finance_dashboard.detect_card.
\* A payment mode is a sequence of atoms: words (runs of word characters,
\* adjacent words being written together) and separators.  \b holds only
\* where a word atom meets a separator or the end of the text.
\* ------------------------------------------------------------------------
MaxAtoms == 3

Seps == {" ", "-"}
WordAtoms ==
    {"amex", "american", "express", "sbi", "onecard", "hsbc", "HSBC", "cash", "cashback",
     "closed", "x"}
Atoms == WordAtoms \cup Seps

\* str(payment_mode).lower()
lower_atom(a) == IF a = "HSBC" THEN "hsbc" ELSE a
text_lower(pm) == AsList([i \in DOMAIN pm |-> lower_atom(pm[i])])

bnd_before(t, i) == i = 1 \/ t[i - 1] \in Seps
bnd_after(t, j) == j = Len(t) \/ t[j + 1] \in Seps

\* \b(w1|w2|...)\b
word_match(t, ws) == \E i \in DOMAIN t : t[i] \in ws /\ bnd_before(t, i) /\ bnd_after(t, i)

\* \bw1\s*w2\b
pair_match(t, pair) ==
    \E i, j \in DOMAIN t :
        /\ i < j /\ t[i] = pair[1] /\ t[j] = pair[2]
        /\ bnd_before(t, i) /\ bnd_after(t, j)
        /\ \A n \in (i + 1)..(j - 1) : t[n] = " "

CardPattern(ws, pairs, name) == [words |-> ws, pairs |-> pairs, name |-> name]

CARD_REGEX_generic_first ==
    << CardPattern({"amex", "plat", "platinum"}, {<<"american", "express">>}, "Amex"),
       CardPattern({"icici", "ici"}, {}, "ICICI"),
       CardPattern({"sbi"}, {}, "SBI"),
       CardPattern({"onecard", "oncecard"}, {}, "One"),
       CardPattern({"hsbc"}, {}, "HSBC"),
       CardPattern({"hsbcl", "cashback"}, {<<"hsbc", "cash">>}, "HSBC Cash") >>

CARD_REGEX ==
    << CardPattern({"amex", "plat", "platinum"}, {<<"american", "express">>}, "Amex"),
       CardPattern({"icici", "ici"}, {}, "ICICI"),
       CardPattern({"sbi"}, {}, "SBI"),
       CardPattern({"onecard", "oncecard"}, {}, "One"),
       CardPattern({"hsbcl", "cashback"}, {<<"hsbc", "cash">>}, "HSBC Cash"),
       CardPattern({"hsbc"}, {}, "HSBC") >>

\* re.search(pat, text)
re_search(pat, t) == word_match(t, pat.words) \/ \E pair \in pat.pairs : pair_match(t, pair)

\* "closed" in text
contains_closed(t) == \E i \in DOMAIN t : t[i] = "closed"

\* the for loop over CARD_REGEX from pattern i on
RECURSIVE first_pattern(_, _)
first_pattern(t, i) ==
    IF i > Len(CARD_REGEX) THEN NoCard
    ELSE IF re_search(CARD_REGEX[i], t)
    THEN (IF CARD_REGEX[i].name = "One" /\ contains_closed(t) THEN NoCard
          ELSE CARD_REGEX[i].name)
    ELSE first_pattern(t, i + 1)

detect_card(pm, ovs) ==
    IF pm = <<>> THEN NoCard
    ELSE IF pm \in DOMAIN ovs THEN ovs[pm]
    ELSE first_pattern(text_lower(pm), 1)

\* the override mappings pasted as JSON: none, the payment mode itself mapped
\* to the generic card, or another payment mode mapped
CardOverrideChoices(pm) == {<<>>, pm :> "HSBC", <<"x">> :> "Amex"}

InitCard ==
    /\ CallIdle /\ DateIdle /\ CycleIdle /\ OvIdle /\ TxIdle /\ CashIdle
    /\ TrendIdle /\ MapIdle /\ CsvIdle /\ FileIdle
    /\ payment_mode \in BoundedSeqs(Atoms, MaxAtoms)
    /\ card_overrides \in CardOverrideChoices(payment_mode)
    /\ detected = NoDetected

DetectCard ==
    /\ detected = NoDetected
    /\ detected' = [fn |-> "detect_card", card |-> detect_card(payment_mode, card_overrides)]
    /\ UNCHANGED <<callVars, dateVars, ruleVars, ovVars, txVars, cashVars, notCard,
                   payment_mode, card_overrides>>

NextCard == DetectCard

SpecCard == InitCard /\ [][NextCard]_vars

\* the cashback / HSBC-Cash pattern of the list
MatchesCashPattern(pm) == re_search(CARD_REGEX[5], text_lower(pm))

\* C11 (as stated): detect_card never resolves a descriptor that matches the
\* cashback / HSBC-Cash pattern to the generic card "HSBC".
C11_NeverGeneric ==
    (detected.fn = "detect_card" /\ MatchesCashPattern(payment_mode))
        => detected.card # "HSBC"

\* C11 (amended): a descriptor that matches the cashback / HSBC-Cash pattern
\* and has no entry in the override mapping never resolves to the generic
\* card "HSBC"; it resolves to "HSBC Cash" unless an earlier pattern of the
\* list matches it too.
C11_NeverGenericByPattern ==
    (/\ detected.fn = "detect_card" /\ MatchesCashPattern(payment_mode)
     /\ payment_mode \notin DOMAIN card_overrides)
        => /\ detected.card # "HSBC"
           /\ (\A i \in 1..4 : ~re_search(CARD_REGEX[i], text_lower(payment_mode)))
                 => detected.card = "HSBC Cash"

\* a descriptor "hsbc cash" in either case, matched by both HSBC patterns and
\* resolved by the list
C11_Witness ==
    /\ detected.fn = "detect_card"
    /\ payment_mode = <<"HSBC", " ", "cash">>
    /\ payment_mode \notin DOMAIN card_overrides
    /\ detected.card = "HSBC Cash"

\* C12: a descriptor whose text contains the "closed" marker resolves to
\* unresolved (None), whichever card pattern of the list it matches.
C12_ClosedUnresolved ==
    (/\ detected.fn = "detect_card" /\ contains_closed(text_lower(payment_mode))
     /\ payment_mode \notin DOMAIN card_overrides)
        => detected.card = NoCard

\* ------------------------------------------------------------------------
\* Trends: the styled monthly table of finance_dashboard.py and of
\* ui_sections.trends_section.  One card's column is modelled; a month of
\* the index is its number, so that the index is ascending as sort_index
\* leaves it.
\* ------------------------------------------------------------------------
MaxRows == 7

ANOMALY_STYLE == "background-color: #f7a5a5; font-weight: bold"
CAP_STYLE == "background-color: #ffcccc; font-weight: bold"

TrendRow(ym, v) == [ym |-> ym, value |-> v]

\* n_months = 12 if window != "Last 6 months" else 6
n_months(w) == IF w # "Last 6 months" THEN 12 ELSE 6

\* if window != "All Time" and monthly.shape[0] > n_months: monthly.iloc[-n_months:, :]
window_rows(rows, w) ==
    IF w # "All Time" /\ Len(rows) > n_months(w)
    THEN SubSeq(rows, Len(rows) - n_months(w) + 1, Len(rows))
    ELSE rows

\* combined_df ... .round(2) of ui_sections; the dashboard styles the sums as they are
rounded_rows(rows, prog) ==
    IF prog = "ui_sections"
    THEN AsList([i \in DOMAIN rows |-> TrendRow(rows[i].ym, round2(rows[i].value))])
    ELSE rows

\* series_for_med: the column, without its last row when the option is on
\* and the last index label is this_ym
series_for_med(rows, excl, ym) ==
    IF excl /\ Len(rows) > 0 /\ rows[Len(rows)].ym = ym
    THEN SubSeq(rows, 1, Len(rows) - 1)
    ELSE rows

RECURSIVE insert_value(_, _)
insert_value(srt, v) ==
    IF srt = <<>> THEN <<v>>
    ELSE IF v < Head(srt) THEN <<v>> \o srt
    ELSE <<Head(srt)>> \o insert_value(Tail(srt), v)

\* series[series > 0], in ascending order
RECURSIVE positive_sorted(_, _)
positive_sorted(rows, n) ==
    IF n = 0 THEN <<>>
    ELSE IF rows[n].value > 0 THEN insert_value(positive_sorted(rows, n - 1), rows[n].value)
    ELSE positive_sorted(rows, n - 1)

\* twice Series.median() of a sorted series; 0 stands for NaN (no value)
median2(srt) ==
    IF srt = <<>> THEN 0
    ELSE IF Len(srt) % 2 = 1 THEN 2 * srt[(Len(srt) + 1) \div 2]
    ELSE srt[Len(srt) \div 2] + srt[Len(srt) \div 2 + 1]

\* med of the column
column_median2(rows, excl, ym) ==
    median2(positive_sorted(series_for_med(rows, excl, ym), Len(series_for_med(rows, excl, ym))))

\* if med and med > 0: is_anom = df_in[col] > 1.5 * med
is_anom(v, med2) == med2 > 0 /\ 4 * v > 3 * med2

\* one cell of df_out: the cap style, written after the anomaly style,
\* replaces it (the cap block is in finance_dashboard.py only)
style_cell(v, med2, cap, prog) ==
    IF prog = "dashboard" /\ cap > 0 /\ v > cap THEN CAP_STYLE
    ELSE IF is_anom(v, med2) THEN ANOMALY_STYLE
    ELSE ""

column_styles(rows, med2, cap, prog) ==
    AsList([i \in DOMAIN rows |-> style_cell(rows[i].value, med2, cap, prog)])

style_anomalies_and_caps(rows, excl, ym, cap, prog) ==
    column_styles(rows, column_median2(rows, excl, ym), cap, prog)

trends_table(rows, excl, ym, cap, prog) ==
    [fn |-> "trends", rows |-> rows,
     styles |-> style_anomalies_and_caps(rows, excl, ym, cap, prog)]

trends_section(m, w, excl, ym, cap, prog) ==
    trends_table(rounded_rows(window_rows(m, w), prog), excl, ym, cap, prog)

TrendValues == {0, 10000, 40000}
TrendWindows == {"Last 6 months", "All Time"}
CapChoices(prog) == IF prog = "dashboard" THEN {0, 30000} ELSE {0}

InitTrend ==
    /\ CallIdle /\ DateIdle /\ CycleIdle /\ TxIdle /\ CashIdle
    /\ CardIdle /\ MapIdle /\ CsvIdle /\ FileIdle
    /\ program \in {"dashboard", "ui_sections"}
    /\ bill_cycles = <<>> /\ overrides = <<>> /\ card_date_overrides = <<>>
    /\ lookup = NoLookup
    /\ \E vals \in BoundedSeqs(TrendValues, MaxRows) :
           monthly = AsList([i \in DOMAIN vals |-> TrendRow(i, vals[i])])
    /\ this_ym \in 1..(Len(monthly) + 1)
    /\ window \in TrendWindows
    /\ exclude_current \in BOOLEAN
    /\ budget_cap \in CapChoices(program)
    /\ styled = NoStyled

TrendsSection ==
    /\ styled = NoStyled
    /\ styled' = trends_section(monthly, window, exclude_current, this_ym, budget_cap, program)
    /\ UNCHANGED <<callVars, dateVars, ruleVars, ovVars, txVars, cashVars, notTrend,
                   monthly, this_ym, window, exclude_current, budget_cap>>

NextTrend == TrendsSection

SpecTrend == InitTrend /\ [][NextTrend]_vars

\* the median the statement describes: of the strictly positive values of
\* the displayed rows, the row of the selected month left out when the
\* option is on (twice the median; 0 when there is no positive value)
C13_rows_for_median(rows, excl, ym) ==
    IF excl THEN select_seq(rows, [i \in DOMAIN rows |-> rows[i].ym # ym], 1) ELSE rows

C13_median2(rows, excl, ym) ==
    median2(positive_sorted(C13_rows_for_median(rows, excl, ym),
                            Len(C13_rows_for_median(rows, excl, ym))))

\* C13: in the trends table a month of a card column carries the anomaly
\* flag if and only if its value exceeds 1.5 times the median of the
\* strictly positive values of the column over the displayed window, the
\* selected month being left out of the median when the exclude option is
\* on; no month is flagged when the column has no positive value.
C13_AnomalyIff ==
    styled.fn = "trends" =>
        \A i \in DOMAIN styled.rows :
            (styled.styles[i] = ANOMALY_STYLE)
                <=> is_anom(styled.rows[i].value,
                            C13_median2(styled.rows, exclude_current, this_ym))

\* the ledger rows of cashflow_section that carry an obligation's label as an outflow
C14_rows_of(ob) ==
    {i \in DOMAIN sim.rows : sim.rows[i].Event = ob.Item /\ sim.rows[i].flow = "out"}

\* the obligations table the simulator was given: the selected month's
\* obligations with the paid flags the regulars section has left
C14_table == cash_out_rows(year, month, paid_flags, TRUE)

\* the statement for the obligations table `table`
C14_holds_for(table) ==
    \A k \in DOMAIN table :
        IF table[k].Paid
        THEN \A i \in DOMAIN sim.rows : sim.rows[i].Event # table[k].Item
        ELSE /\ Cardinality(C14_rows_of(table[k])) = 1
             /\ \A i \in C14_rows_of(table[k]) :
                    /\ sim.rows[i].Amount = table[k].Amount
                    /\ sim.rows[i].Date = table[k].DueDate
                    /\ sim.rows[i].Date.y = year /\ sim.rows[i].Date.m = month

C14_some_of_each(table) ==
    \E k, n \in DOMAIN table :
        /\ table[k].Paid /\ ~table[n].Paid
        /\ C14_rows_of(table[n]) # {}
        /\ C14_rows_of(table[k]) = {}

\* C14: in the ledger of cashflow_section a paid obligation has no event,
\* and an unpaid obligation due in the selected month has exactly one
\* outflow event, of the obligation's amount, on its due date.
C14_UnpaidOnce == sim.fn = "cashflow_section" => C14_holds_for(C14_table)

\* a run in which one obligation is unpaid and shown, and another one is paid
C14_Witness == sim.fn = "cashflow_section" /\ C14_some_of_each(C14_table)

\* the ledger rows of bills_section that are the bill of `card`
C15_bill_rows(card) == {i \in DOMAIN sim.rows : sim.rows[i].Event = card \o " Bill"}

\* C15: a card bill whose paid flag CC::<card>::<YYYY-MM> of the selected
\* month is true is left out of the simulation of bills_section.
C15_PaidBillExcluded ==
    (sim.fn = "bills_section" /\ ~sim.raised) =>
        \A card \in DOMAIN bill_cycles :
            flag_get(paid_flags, cc_key(card, year, month)) => C15_bill_rows(card) = {}

C16_key(ov) == <<ov.card_id, ov.year, ov.month>>

\* C16: after any sequence of Save and Delete of overrides_crud_section,
\* from the empty list, the list holds at most one override per
\* (card_id, year, month).
C16_OnePerKey ==
    program = "app" =>
        \A i, j \in DOMAIN overrides :
            C16_key(overrides[i]) = C16_key(overrides[j]) => i = j

\* C17: a step of overrides_crud_section leaves the (card_id, year, month)
\* of every override that is still in the list under its id as it was; in
\* particular a Save naming the id of a stored override does not change it.
C17_KeyImmutable ==
    [][\A i \in DOMAIN overrides : \A j \in DOMAIN overrides' :
          overrides'[j].id = overrides[i].id
              => C16_key(overrides'[j]) = C16_key(overrides[i])]_vars

\* ------------------------------------------------------------------------
\* Card mapping and monthly totals of helpers.py
\* ------------------------------------------------------------------------
RawTxn(pm, type, amount, ts) ==
    [PaymentMode |-> pm, type |-> type, Amount |-> amount, Date |-> ts]

\* out["Card"] = out["Payment mode"].map(aliases).replace({np.nan: None})
mapped_row(r, aliases) ==
    [Card |-> IF r.PaymentMode \in DOMAIN aliases THEN aliases[r.PaymentMode] ELSE NoCard,
     type |-> r.type, Amount |-> r.Amount, Date |-> r.Date, PaymentMode |-> r.PaymentMode]

\* helpers.apply_card_mapping(df, aliases)
apply_card_mapping(rows, aliases) ==
    IF rows = <<>> THEN rows
    ELSE AsList([i \in DOMAIN rows |-> mapped_row(rows[i], aliases)])

\* df.loc[df["type"].str.lower().eq("expense")]
expense_rows(rows) ==
    select_seq(rows, AsList([i \in DOMAIN rows |-> lower(rows[i].type) = "expense"]), 1)

totals_kept_with_none(tmp) == tmp

\* tmp.loc[tmp["Card"].notna()]
totals_kept(tmp) ==
    select_seq(tmp, AsList([i \in DOMAIN tmp |-> tmp[i].Card # NoCard]), 1)

\* Date.dt.to_period("M").astype(str)
period_M(ts) == <<ts.date.y, ts.date.m>>

\* groupby(["YYYY-MM", "Card"])["Amount"].sum(): the sum of one group, rows i..
RECURSIVE group_sum(_, _, _, _)
group_sum(kept, ym, card, i) ==
    IF i > Len(kept) THEN 0
    ELSE (IF period_M(kept[i].Date) = ym /\ kept[i].Card = card THEN kept[i].Amount ELSE 0)
           + group_sum(kept, ym, card, i + 1)

has_group(kept, ym, card) ==
    \E i \in DOMAIN kept : period_M(kept[i].Date) = ym /\ kept[i].Card = card

\* .unstack(fill_value=0.0).sort_index(): index, columns and cells of g
totals_table(kept) ==
    [fn |-> "monthly_totals", none |-> FALSE,
     index |-> {period_M(kept[i].Date) : i \in DOMAIN kept},
     columns |-> {kept[i].Card : i \in DOMAIN kept},
     cells |-> [kk \in {period_M(kept[i].Date) : i \in DOMAIN kept}
                         \X {kept[i].Card : i \in DOMAIN kept} |->
                   IF has_group(kept, kk[1], kk[2]) THEN group_sum(kept, kk[1], kk[2], 1)
                   ELSE 0]]

TotalsNone == [fn |-> "monthly_totals", none |-> TRUE, index |-> {}, columns |-> {},
               cells |-> <<>>]

totals_of_expenses(tmp) == IF tmp = <<>> THEN TotalsNone ELSE totals_table(totals_kept(tmp))

\* helpers.monthly_totals(df)
monthly_totals(rows) ==
    IF rows = <<>> THEN TotalsNone ELSE totals_of_expenses(expense_rows(rows))

BaseRaw == RawTxn("amex plat", "expense", 1500000, Timestamp(Date(2023, 9, 25), 0))

\* rows of the normalised feed: the base row with its payment mode, its type,
\* its amount or its date changed
RawRows ==
    {BaseRaw}
      \cup { [BaseRaw EXCEPT !.PaymentMode = pm] : pm \in {"hsbc visa", "upi"} }
      \cup { [BaseRaw EXCEPT !.PaymentMode = "upi", !.Amount = 700000] }
      \cup { [BaseRaw EXCEPT !.type = "income"] }
      \cup { [BaseRaw EXCEPT !.Date = Timestamp(Date(2023, 10, 21), 23)] }

AliasChoices ==
    { <<>>, "amex plat" :> "Amex", ("amex plat" :> "Amex") @@ ("hsbc visa" :> "HSBC") }

InitMap ==
    /\ CallIdle /\ DateIdle /\ CycleIdle /\ CashIdle
    /\ CardIdle /\ TrendIdle /\ CsvIdle /\ FileIdle
    /\ program = "app"
    /\ bill_cycles = <<>> /\ overrides = <<>> /\ card_date_overrides = <<>>
    /\ lookup = NoLookup
    /\ raw_df \in BoundedSeqs(RawRows, MaxTxns)
    /\ card_aliases \in AliasChoices
    /\ df = <<>>
    /\ liability = NoLiability
    /\ totals = NoTotals

\* the feed is mapped once it is loaded
ApplyCardMapping ==
    /\ program = "app"
    /\ df = <<>>
    /\ df' = apply_card_mapping(raw_df, card_aliases)
    /\ UNCHANGED <<callVars, dateVars, ruleVars, ovVars, cashVars, notMap, liability,
                   raw_df, card_aliases, totals>>

MapSumLiability ==
    /\ df # <<>>
    /\ SumLiability

MonthlyTotals ==
    /\ program = "app"
    /\ df # <<>>
    /\ totals' = monthly_totals(df)
    /\ UNCHANGED <<callVars, dateVars, ruleVars, ovVars, txVars, cashVars, notMap,
                   raw_df, card_aliases>>

NextMap == ApplyCardMapping \/ MapSumLiability \/ MonthlyTotals

SpecMap == InitMap /\ [][NextMap]_vars

\* the feed with the amount of every unresolved row changed
C18_perturbed(rows) ==
    AsList([i \in DOMAIN rows |->
        IF rows[i].Card = NoCard THEN [rows[i] EXCEPT !.Amount = @ + 1000000] ELSE rows[i]])

C18_same_liability(a, b) == a.sub = b.sub /\ a.amount = b.amount /\ a.count = b.count

\* C18: a transaction whose payment mode has no alias stays in the mapped
\* feed, with Card None and its other fields as they were; no row with Card
\* None is among the rows sum_liability selects, and its amount has no
\* influence on the total of any card; monthly_totals has no column for None
\* and none of its cells depends on the amount of a row with Card None.
C18_UnresolvedInert ==
    /\ df # <<>> =>
          /\ Len(df) = Len(raw_df)
          /\ \A i \in DOMAIN df :
                /\ df[i].PaymentMode = raw_df[i].PaymentMode /\ df[i].type = raw_df[i].type
                /\ df[i].Amount = raw_df[i].Amount /\ df[i].Date = raw_df[i].Date
                /\ raw_df[i].PaymentMode \notin DOMAIN card_aliases => df[i].Card = NoCard
    /\ liability.fn = "helpers" =>
          /\ \A n \in DOMAIN liability.sub : df[liability.sub[n]].Card # NoCard
          /\ C18_same_liability(liability,
                                sum_liability(C18_perturbed(df), liability.card,
                                              liability.start, liability.end))
    /\ totals.fn = "monthly_totals" =>
          /\ NoCard \notin totals.columns
          /\ \A kk \in DOMAIN totals.cells : kk[2] # NoCard
          /\ totals = monthly_totals(C18_perturbed(df))
          /\ \A ym \in totals.index :
                \E i \in DOMAIN df :
                    df[i].Card # NoCard /\ period_M(df[i].Date) = ym

\* an unresolved expense beside a resolved one of the same month and window:
\* both in the mapped feed, the liability and the month's cell count the
\* resolved one only
C18_Witness ==
    /\ Len(df) = 2
    /\ df[1].Card = NoCard /\ df[2].Card = "Amex"
    /\ lower(df[1].type) = "expense" /\ df[1].Date = df[2].Date
    /\ liability.fn = "helpers" /\ liability.card = "Amex" /\ liability.count = 1
    /\ liability.amount = df[2].Amount
    /\ totals.fn = "monthly_totals" /\ ~totals.none
    /\ totals.cells[<<period_M(df[2].Date), "Amex">>] = df[2].Amount

\* ------------------------------------------------------------------------
\* helpers.normalize_csv.  A cell of the CSV is a text; NaN stands for an
\* empty cell.  A date text is the sequence of its three numbers, as for the
\* overrides; an amount text is one of the texts of AmountTexts.
\* ------------------------------------------------------------------------
MaxCsvRows == 3

NaN == "<NaN>"
NaT == Timestamp(NoDate, 0)

\* pd.to_datetime(text, errors="coerce"); the empty sequence is an empty cell
to_datetime(t) ==
    IF isoformat_valid(t) THEN Timestamp(Date(t[1], t[2], t[3]), 0) ELSE NaT

AmountTexts == {"1500.00", "12.345", "-250", "abc", NaN}

\* pd.to_numeric(text, errors="coerce"), in 1/1000: [nan, val]
Num(v) == [nan |-> FALSE, val |-> v]
NumNaN == [nan |-> TRUE, val |-> 0]

to_numeric(t) ==
    CASE t = "1500.00" -> Num(1500000)
      [] t = "12.345" -> Num(12345)
      [] t = "-250" -> Num(-250000)
      [] OTHER -> NumNaN

\* Series.fillna(v) on a number
fillna_num(x, v) == IF x.nan THEN v ELSE x.val

\* Series.fillna(v).astype(str) on a text
fillna(x, v) == IF x = NaN THEN v ELSE x

CsvRow(dt, amount, pm, type) == [Date |-> dt, Amount |-> amount, PaymentMode |-> pm, type |-> type]

\* the file read by pd.read_csv: whether it has the required columns, and its rows
CsvFile(missing, rows) == [missing |-> missing, rows |-> rows]

\* df["Date"] = pd.to_datetime(df["Date"], errors="coerce")
with_parsed_date(rows) ==
    AsList([i \in DOMAIN rows |-> [rows[i] EXCEPT !.Date = to_datetime(@)]])

\* df = df[df["Date"].notna()]
date_notna(rows) == select_seq(rows, AsList([i \in DOMAIN rows |-> rows[i].Date # NaT]), 1)

\* Amount: to_numeric(...).fillna(0.0).round(2); type and Payment mode: fillna("")
normalized_columns(rows) ==
    AsList([i \in DOMAIN rows |->
        RawTxn(fillna(rows[i].PaymentMode, ""), fillna(rows[i].type, ""),
               round2(fillna_num(to_numeric(rows[i].Amount), 0)), rows[i].Date)])

Normalized(none, rows) == [fn |-> "normalize_csv", none |-> none, rows |-> rows]

\* helpers.normalize_csv(file)
normalize_csv(csv) ==
    IF csv.missing THEN Normalized(TRUE, <<>>)
    ELSE Normalized(FALSE, normalized_columns(date_notna(with_parsed_date(csv.rows))))

DateTexts == {<<2024, 1, 15>>, <<2024, 2, 30>>, <<>>}

CsvRows ==
    { CsvRow(dt, "1500.00", "amex plat", "expense") : dt \in DateTexts }
      \cup { CsvRow(<<2024, 1, 15>>, a, "amex plat", "expense") : a \in AmountTexts }
      \cup { CsvRow(<<2024, 2, 30>>, "abc", "amex plat", "expense"),
             CsvRow(<<2024, 1, 15>>, "1500.00", NaN, NaN) }

InitCsv ==
    /\ CallIdle /\ DateIdle /\ CycleIdle /\ OvIdle /\ TxIdle /\ CashIdle
    /\ CardIdle /\ TrendIdle /\ MapIdle /\ FileIdle
    /\ \E missing \in BOOLEAN, rows \in BoundedSeqs(CsvRows, MaxCsvRows) :
          csv_rows = CsvFile(missing, rows)
    /\ normalized = NoNormalized

NormalizeCsv ==
    /\ normalized = NoNormalized
    /\ normalized' = normalize_csv(csv_rows)
    /\ UNCHANGED <<callVars, dateVars, ruleVars, ovVars, txVars, cashVars, notCsv, csv_rows>>

NextCsv == NormalizeCsv

SpecCsv == InitCsv /\ [][NextCsv]_vars

\* a row whose date and amount both parse
C19_parseable(r) == to_datetime(r.Date) # NaT /\ ~to_numeric(r.Amount).nan

C19_expected_of(rows) ==
    select_seq(rows, AsList([i \in DOMAIN rows |-> C19_parseable(rows[i])]), 1)

\* the statement for the rows `expected` that parse, in file order
C19_holds_for(expected) ==
    /\ Len(normalized.rows) = Len(expected)
    /\ \A i \in DOMAIN normalized.rows :
          /\ i \in DOMAIN expected
          /\ normalized.rows[i].Date = to_datetime(expected[i].Date)
          /\ normalized.rows[i].Amount = to_numeric(expected[i].Amount).val

\* C19: the output of normalize_csv is the feed without the rows whose Date
\* or whose Amount cannot be parsed, every other row in its place with the
\* date and the amount it has in the file.
C19_DropsUnparseable ==
    (normalized.fn = "normalize_csv" /\ ~normalized.none)
        => C19_holds_for(C19_expected_of(csv_rows.rows))

\* ------------------------------------------------------------------------
\* data.py: _read_json and _write_json on one collection file.  A collection
\* is a list of items; the text of a file is a sequence of tokens.
\* ------------------------------------------------------------------------
MaxItems == 2

Items == {"a", "b"}
Objs == BoundedSeqs(Items, MaxItems)

File(text) == [exists |-> TRUE, text |-> text]

\* EMPTY_...: the default of a collection
EMPTY == <<>>

\* json.dump(obj, f): the text written
dumps(obj) == <<"[">> \o obj \o <<"]">>

\* json.load(f): [ok, val]; ok = FALSE stands for the exception
loads(text) ==
    IF /\ Len(text) >= 2 /\ text[1] = "[" /\ text[Len(text)] = "]"
       /\ \A i \in 2..(Len(text) - 1) : text[i] \in Items
    THEN [ok |-> TRUE, val |-> SubSeq(text, 2, Len(text) - 1)]
    ELSE [ok |-> FALSE, val |-> <<>>]

\* data._read_json(path, default)
read_json(file, default) ==
    IF ~file.exists THEN default
    ELSE IF loads(file.text).ok THEN loads(file.text).val
    ELSE default

after_replace_keeps_old(old, tmp) == old

\* tmp.replace(path): what the collection file holds afterwards
after_replace(old, tmp) == tmp

\* what an earlier run has left: no file or a saved collection, and possibly
\* the .tmp file of a save that was interrupted
InitFile ==
    /\ CallIdle /\ DateIdle /\ CycleIdle /\ OvIdle /\ TxIdle /\ CashIdle
    /\ CardIdle /\ TrendIdle /\ MapIdle /\ CsvIdle
    /\ \/ fs_path = NoFile /\ committed = NoObj
       \/ \E obj \in Objs : fs_path = File(dumps(obj)) /\ committed = [some |-> TRUE, val |-> obj]
    /\ fs_tmp \in {NoFile, File(<<"[", "a">>)}
    /\ save_pc = "idle"
    /\ save_obj = <<>>
    /\ loaded = NoLoaded

\* _write_json: open(tmp, "w") creates the .tmp file or empties it
WriteJsonOpen ==
    /\ save_pc = "idle"
    /\ \E obj \in Objs : save_obj' = obj
    /\ fs_tmp' = File(<<>>)
    /\ save_pc' = "writing"
    /\ UNCHANGED <<callVars, dateVars, ruleVars, ovVars, txVars, cashVars, notFile,
                   fs_path, committed, loaded>>

\* json.dump: the next token reaches the .tmp file
WriteJsonDump ==
    /\ save_pc = "writing"
    /\ Len(fs_tmp.text) < Len(dumps(save_obj))
    /\ fs_tmp' = File(Append(fs_tmp.text, dumps(save_obj)[Len(fs_tmp.text) + 1]))
    /\ UNCHANGED <<callVars, dateVars, ruleVars, ovVars, txVars, cashVars, notFile,
                   fs_path, save_pc, save_obj, committed, loaded>>

\* the end of the with block: the .tmp file is complete and closed
WriteJsonClose ==
    /\ save_pc = "writing"
    /\ fs_tmp.text = dumps(save_obj)
    /\ save_pc' = "written"
    /\ UNCHANGED <<callVars, dateVars, ruleVars, ovVars, txVars, cashVars, notFile,
                   fs_path, fs_tmp, save_obj, committed, loaded>>

\* tmp.replace(path): the save is complete
WriteJsonReplace ==
    /\ save_pc = "written"
    /\ fs_path' = after_replace(fs_path, fs_tmp)
    /\ fs_tmp' = NoFile
    /\ committed' = [some |-> TRUE, val |-> save_obj]
    /\ save_pc' = "idle"
    /\ save_obj' = <<>>
    /\ UNCHANGED <<callVars, dateVars, ruleVars, ovVars, txVars, cashVars, notFile, loaded>>

\* the process stops in the middle of a save: the files stay as they are
SaveInterrupted ==
    /\ save_pc # "idle"
    /\ save_pc' = "idle"
    /\ save_obj' = <<>>
    /\ UNCHANGED <<callVars, dateVars, ruleVars, ovVars, txVars, cashVars, notFile,
                   fs_path, fs_tmp, committed, loaded>>

\* a load of the collection, at any moment
ReadJson ==
    /\ loaded' = [fn |-> "_read_json", val |-> read_json(fs_path, EMPTY)]
    /\ UNCHANGED <<callVars, dateVars, ruleVars, ovVars, txVars, cashVars, notFile,
                   fs_path, fs_tmp, save_pc, save_obj, committed>>

NextFile ==
    \/ WriteJsonOpen
    \/ WriteJsonDump
    \/ WriteJsonClose
    \/ WriteJsonReplace
    \/ SaveInterrupted
    \/ ReadJson

SpecFile == InitFile /\ [][NextFile]_vars

\* the value a load has to return: the last completely saved collection, the
\* default when nothing was ever saved
C20_expected == IF committed.some THEN committed.val ELSE EMPTY

\* C20: at every moment, also in the middle of a save and after a save that
\* was interrupted at any step, the collection file reads as the collection
\* of the last completed save, and every load returns that collection.
C20_AtomicSave ==
    /\ [](read_json(fs_path, EMPTY) = C20_expected)
    /\ [][loaded' # loaded => loaded'.val = C20_expected]_vars

\* a completed save of a non-empty collection, then a second save interrupted
\* after it has written part of the .tmp file, then a load: the first
\* collection is returned
C20_Witness ==
    /\ save_pc = "idle"
    /\ committed.some /\ committed.val = <<"a", "b">>
    /\ fs_tmp.exists /\ fs_tmp.text = <<"[", "b">>
    /\ loaded.fn = "_read_json" /\ loaded.val = <<"a", "b">>

\* start <= end for two date texts that both parse
C21_ordered(start, end) ==
    (fromisoformat(start).ok /\ fromisoformat(end).ok)
        => DateLE(fromisoformat(start).val, fromisoformat(end).val)

\* C21: after any sequence of "Save month overrides", "Import this month
\* JSON" and "Clear overrides for this month", and of Save and Delete of
\* overrides_crud_section, every stored override has cycle start <= cycle end.
C21_StoredStartNotAfterEnd ==
    /\ \A kk \in DOMAIN card_date_overrides :
          C21_ordered(card_date_overrides[kk].start, card_date_overrides[kk].end)
    /\ \A i \in DOMAIN overrides :
          C21_ordered(overrides[i].cycle_start, overrides[i].cycle_end)

\* ------------------------------------------------------------------------
\* Specification of the effective-cycle lookups over stored overrides: the
\* app starts from the list data.load_overrides reads from the overrides
\* file, whose records hold whatever texts the file holds; the dashboard
\* starts from the empty session dict and receives its records by import.
\* ------------------------------------------------------------------------
\* date texts of a stored record: a valid date, an invalid one (February 30)
\* and a field that is absent (indexing it raises as parsing does)
StoredTriples ==
    { <<isoformat(Date(2023, 12, 22)), isoformat(Date(2024, 1, 21)), isoformat(Date(2024, 1, 30))>>,
      <<<<2024, 2, 30>>, isoformat(Date(2024, 1, 21)), isoformat(Date(2024, 1, 30))>>,
      <<isoformat(Date(2023, 12, 22)), isoformat(Date(2024, 1, 21)), <<>>>> }

StoredOverride(id, card_id, y, m, t) ==
    [id |-> id, card_id |-> card_id, year |-> y, month |-> m,
     cycle_start |-> t[1], cycle_end |-> t[2], due_date |-> t[3]]

\* data.load_overrides(): the list held by the overrides file
load_overrides ==
    {<<>>} \cup { <<StoredOverride(1, c, 2024, 1, t)>> : c \in Cards, t \in StoredTriples }

InitOvFile ==
    /\ CallIdle /\ DateIdle /\ CycleIdle /\ TxIdle /\ CashIdle /\ ExtIdle
    /\ program \in {"app", "dashboard"}
    /\ bill_cycles \in CycleChoices
    /\ overrides \in (IF program = "app" THEN load_overrides ELSE {<<>>})
    /\ card_date_overrides = <<>>
    /\ lookup = NoLookup

SpecOvFile == InitOvFile /\ [][NextOv]_vars

\* the stored override the lookup of (card, y, m) finds is malformed
C22_malformed_app(card, y, m) ==
    LET i == get_override_for(card, y, m, overrides)
    IN  /\ i # 0
        /\ ~ (fromisoformat(overrides[i].cycle_start).ok
              /\ fromisoformat(overrides[i].cycle_end).ok
              /\ fromisoformat(overrides[i].due_date).ok)

C22_malformed_dashboard(card, y, m) ==
    LET key == override_key(y, m, card)
    IN  /\ key \in DOMAIN card_date_overrides
        /\ ~ (fromisoformat(card_date_overrides[key].start).ok
              /\ fromisoformat(card_date_overrides[key].end).ok
              /\ fromisoformat(card_date_overrides[key].due).ok)

\* C22: a stored override that is malformed (a date field missing or not a
\* valid ISO date) is ignored by the effective-cycle lookup: get_overridden_cycle
\* and get_effective_cycle return the rule-based cycle and raise no error.
C22_MalformedIgnored ==
    /\ (lookup # NoLookup /\ lookup.fn = "get_overridden_cycle"
            /\ C22_malformed_dashboard(lookup.card, lookup.y, lookup.m))
         => /\ ~ lookup.raised
            /\ lookup.res = fd_cycle_from_days(bill_cycles[lookup.card], lookup.y, lookup.m)
    /\ (lookup # NoLookup /\ lookup.fn = "get_effective_cycle"
            /\ C22_malformed_app(lookup.card, lookup.y, lookup.m))
         => /\ ~ lookup.raised
            /\ lookup.res = cycle_window_for_month(bill_cycles[lookup.card], lookup.y, lookup.m)

\* the part of C22 that is about finance_dashboard.get_overridden_cycle
C22_DashboardIgnores ==
    (lookup # NoLookup /\ lookup.fn = "get_overridden_cycle"
        /\ C22_malformed_dashboard(lookup.card, lookup.y, lookup.m))
      => /\ ~ lookup.raised
         /\ lookup.res = fd_cycle_from_days(bill_cycles[lookup.card], lookup.y, lookup.m)

\* the labels of the card-bill events of the three simulators
CCLabels == {c \o " Bill Payment (CC)" : c \in Cards} \cup {c \o " Bill" : c \in Cards}

\* C23: every card-bill outflow event of a cash-flow simulation has a due
\* date whose (year, month) equals the selected month; a card whose found
\* cycle is due in another month contributes no event.
C23_CardBillsDueInMonth ==
    \A i \in DOMAIN sim.rows :
        sim.rows[i].Event \in CCLabels
            => sim.rows[i].Date.y = year /\ sim.rows[i].Date.m = month

\* the same for the simulators of ui_sections.py and finance_dashboard.py
C23_SidebarBillsDueInMonth ==
    sim.fn \in {"cashflow_section", "fd_simulator"} => C23_CardBillsDueInMonth

\* some generation month within two months of (y, m) has an effective cycle
\* of `card` that is due in (y, m)
C24_match_exists(card, y, m) ==
    \E k \in -2..2 :
        LET g == add_months(Date(y, m, 15), k)
            r == get_effective_cycle(card, bill_cycles[card], g.y, g.m, overrides)
        IN  ~r.raised /\ r.res.due.y = y /\ r.res.due.m = m

\* C24: card_bill_due_in_month(card, ref_date, overrides) returns a cycle
\* whose due date falls in ref_date's month whenever the effective cycle of
\* some generation month within two months before or after ref_date's month
\* is due in that month.
C24_ReturnsDueMonthMatch ==
    (lookup # NoLookup /\ lookup.fn = "card_bill_due_in_month"
        /\ C24_match_exists(lookup.card, lookup.y, lookup.m))
      => /\ ~lookup.raised
         /\ lookup.res.due.y = lookup.y /\ lookup.res.due.m = lookup.m

\* the paid flags a run of the regular-expenses section leaves when no
\* checkbox was clicked
C25_rendered ==
    IF program = "ui_sections"
    THEN regulars_section(year, month, paid_flags, NoClick, TRUE).flags
    ELSE IF program = "dashboard"
    THEN regulars_section(year, month, paid_flags, NoClick, FALSE).flags
    ELSE regulars_crud_section(paid_flags, Date(year, month, 1), bill_cycles, overrides, df,
                               NoClick)

\* paid_flags.get(k, False) is the same in both collections for every key
C25_same_values(f, g) ==
    \A kk \in (DOMAIN f) \cup (DOMAIN g) : flag_get(f, kk) = flag_get(g, kk)

\* C25 as stated: rendering the regular-expenses section without toggling any
\* checkbox leaves the paid-flag collection (its set of keys and every value)
\* unchanged.
C25_CollectionUnchanged ==
    [][(sim = NoSim /\ paid_flags' = C25_rendered) => paid_flags' = paid_flags]_vars

\* C25, amended: rendering the regular-expenses section without toggling any
\* checkbox keeps every stored key and leaves the paid value read for every
\* key (False when the key is absent) unchanged; the keys of the shown items
\* are added with the value False.
C25_ValuesUnchanged ==
    [][(sim = NoSim /\ paid_flags' = C25_rendered)
          => /\ (DOMAIN paid_flags) \subseteq (DOMAIN paid_flags')
             /\ C25_same_values(paid_flags, paid_flags')]_vars

\* a run without a click has stored the keys of the shown items, all unpaid
C25_Witness ==
    /\ program # "app" /\ sim # NoSim
    /\ DOMAIN paid_flags # {}
    /\ \A kk \in DOMAIN paid_flags : ~paid_flags[kk]

\* the calendar month k months after (y, m), one month at a time
RECURSIVE C26_month_after(_, _, _)
C26_month_after(y, m, k) ==
    IF k = 0 THEN <<y, m>>
    ELSE IF k > 0
    THEN (IF m = 12 THEN C26_month_after(y + 1, 1, k - 1)
          ELSE C26_month_after(y, m + 1, k - 1))
    ELSE (IF m = 1 THEN C26_month_after(y - 1, 12, k + 1)
          ELSE C26_month_after(y, m - 1, k + 1))

\* C26: shift_month(d, k) returns the date in the calendar month k months
\* after d's month (k may be negative; the year is carried), with day
\* min(d.day, length of that month); so 2023-01-31 shifted by 1 is 2023-02-28
\* and 2023-12-01 shifted by 1 is 2024-01-01.
C26_ShiftMonth ==
    date_out.fn = "shift_month" =>
        LET ym == C26_month_after(year, month, shift_k)
        IN  /\ date_out.val = Date(ym[1], ym[2], Min2(day, MonthLength(ym[1], ym[2])))
            /\ (year = 2023 /\ month = 1 /\ day = 31 /\ shift_k = 1)
                  => date_out.val = Date(2023, 2, 28)
            /\ (year = 2023 /\ month = 12 /\ day = 1 /\ shift_k = 1)
                  => date_out.val = Date(2024, 1, 1)

\* a negative shift that carries the year and clamps the day
C26_Witness ==
    /\ date_out.fn = "shift_month"
    /\ shift_k < 0 /\ date_out.val.y = year - 1 /\ date_out.val.d < day

\* the cycle the day rule generates due_offset months before (year, month)
C27_generated ==
    LET g == C26_month_after(year, month, 0 - card_row.due_offset)
    IN  fd_cycle_from_days(card_row, g[1], g[2])

C27_returns_generated ==
    /\ cycle.cs = C27_generated.cs /\ cycle.ce = C27_generated.ce
    /\ cycle.bill = C27_generated.bill /\ cycle.due = C27_generated.due
    /\ cycle.due.y = year /\ cycle.due.m = month

\* C27 as stated: with no overrides stored, for every rule whose due_offset is
\* in 0..3 and every target (year, month), find_cycle_whose_due_falls_in_month
\* returns the cycle generated due_offset months before the target, and its
\* due date lies in the target month.
C27_FindsGeneratedCycle ==
    (cycle.fn = "find_cycle" /\ card_row.due_offset \in 0..3) => C27_returns_generated

\* C27, amended: the same for every rule whose due_offset is in 0..2; with
\* due_offset 3 the generation month lies outside the five candidates and the
\* nearest-candidate fallback returns a cycle due outside the target month.
C27_FindsGeneratedCycleUpTo2 ==
    /\ (cycle.fn = "find_cycle" /\ card_row.due_offset \in 0..2) => C27_returns_generated
    /\ (cycle.fn = "find_cycle" /\ card_row.due_offset = 3)
          => ~(cycle.due.y = year /\ cycle.due.m = month)

\* a cycle generated two months before a target of January, in the year before
C27_Witness ==
    /\ cycle.fn = "find_cycle" /\ card_row.due_offset = 2 /\ month = 1
    /\ cycle.ce.y = year - 1 /\ cycle.ce.m = 11
    /\ cycle.due.y = year /\ cycle.due.m = 1

\* the generation month after (year, month)
C28_next == C26_month_after(year, month, 1)

\* C28: with no overrides, for every valid rule and consecutive generation
\* months m and m+1, the windows of cycle_window_for_month and of the
\* day-based branch of get_overridden_cycle do not overlap:
\* cycle_end(m) < cycle_start(m+1).
C28_WindowsDisjoint ==
    /\ (cycle.fn = "helpers" /\ ValidRule(card_row))
          => DateLT(cycle.ce, cycle_window_for_month(card_row, C28_next[1], C28_next[2]).cs)
    /\ (cycle.fn = "dashboard" /\ ValidRule(card_row))
          => DateLT(cycle.ce, fd_cycle_from_days(card_row, C28_next[1], C28_next[2]).cs)

\* C29: helpers.cycle_window_for_month and the day-based branch of
\* finance_dashboard.get_overridden_cycle return the same (cycle_start,
\* cycle_end, bill, due) for every rule with days in 1..31 and due_offset in
\* 0..3 and every (year, month).
C29_SameCycle ==
    /\ (cycle.fn = "helpers" /\ ValidRule(card_row))
          => LET o == fd_cycle_from_days(card_row, year, month)
             IN  /\ cycle.cs = o.cs /\ cycle.ce = o.ce
                 /\ cycle.bill = o.bill /\ cycle.due = o.due
    /\ (cycle.fn = "dashboard" /\ ValidRule(card_row))
          => LET o == cycle_window_for_month(card_row, year, month)
             IN  /\ cycle.cs = o.cs /\ cycle.ce = o.ce
                 /\ cycle.bill = o.bill /\ cycle.due = o.due

\* a cycle of the dashboard whose start is shifted into the month before and
\* clamped, and whose due month wraps into the next year
C29_Witness ==
    /\ cycle.fn = "dashboard" /\ ValidRule(card_row)
    /\ card_row.start_day = 31 /\ card_row.end_day = 30 /\ card_row.due_offset = 3
    /\ month = 12 /\ cycle.cs.m = 11 /\ cycle.cs.d = 30 /\ cycle.due.y = year + 1

\* the events cashflow_section collected in the run that left this state, in
\* the order of collection
C30_events ==
    cashflow_events(df, card_date_overrides, bill_cycles, year, month, salary, extra_inflows,
                    cash_out_rows(year, month, paid_flags, TRUE))

\* the same events collected in the reverse order, and with two neighbours
\* exchanged
C30_reversed(events) == AsList([i \in DOMAIN events |-> events[Len(events) + 1 - i]])

C30_swapped(events, k) ==
    AsList([i \in DOMAIN events |->
        IF i = k THEN events[k + 1] ELSE IF i = k + 1 THEN events[k] ELSE events[i]])

C30_ledger_of(events) ==
    cashflow_ledger(sort_events(events), 1, round2(start_balance + extra_buffer))

C30_same_ledger(events, rows) ==
    /\ C30_ledger_of(events) = rows
    /\ C30_ledger_of(C30_reversed(events)) = rows
    /\ \A k \in 1..(Len(events) - 1) : C30_ledger_of(C30_swapped(events, k)) = rows

\* C30: the ledger of cashflow_section does not depend on the order in which
\* its events were collected: for the same starting balance and buffer, the
\* same events collected in another order (reversed, or with two neighbours
\* exchanged) yield the same sequence of rows and the same balance after
\* every row.
C30_OrderIndependent ==
    sim.fn = "cashflow_section" => C30_same_ledger(C30_events, sim.rows)

\* the same for runs in which no two events share date, direction and label
C30_OrderIndependentNoTies ==
    (sim.fn = "cashflow_section"
        /\ \A i, j \in DOMAIN sim.rows :
              (i # j) => ~(/\ sim.rows[i].Date = sim.rows[j].Date
                           /\ sim.rows[i].flow = sim.rows[j].flow
                           /\ sim.rows[i].Event = sim.rows[j].Event))
      => C30_same_ledger(C30_events, sim.rows)

=============================================================================
